---- MODULE Spec2Model ----
(***************************************************************************)
(* A model of the OpenAPI-to-tool bridge (fast_mcp_server.py) and of the   *)
(* synthetic integration-test runner (test_empi_endpoints.py).             *)
(*                                                                         *)
(* Four state machines share the sample documents:                         *)
(*   SpecRunner  : test_all_endpoints / worker / run_single_test           *)
(*   SpecFetch   : fetch_openapi_spec, one GET at a time                   *)
(*   SpecCatalog : the catalog loop of ensure_openapi_loaded               *)
(*   Spec        : the tool server: concurrent list_tools and call_tool    *)
(*                 tasks around ensure_openapi_loaded                      *)
(***************************************************************************)
EXTENDS Integers, Sequences, FiniteSets, TLC

(***************************************************************************)
(* Bounds of the model.                                                    *)
(***************************************************************************)
\* longest document (number of path/key entries) the target serves
MaxDocLen == 2
\* largest concurrency ceiling handed to test_all_endpoints
MaxConcurrency == 2
\* number of tool calls the server handles concurrently
MaxHandlers == 2

(***************************************************************************)
(* Sample OpenAPI material.  A path template and an operation id are       *)
(* sequences of tokens: the punctuation characters "/", "{", "}", "_" are  *)
(* tokens of their own, every other token is a run of letters and digits.  *)
(***************************************************************************)
NoId == <<>>
NoBody == [present |-> FALSE, type |-> "none", properties |-> <<>>, required |-> <<>>]

\* A parameter object with its schema, and a property of a body schema: the
\* schema's type, its enum list (<<>> without one) and its format ("" without)
ParamOf(name, loc, req, type, enum, format) ==
    [name |-> name, in |-> loc, required |-> req, type |-> type, enum |-> enum,
     format |-> format]
Param(name, loc, req, type) == ParamOf(name, loc, req, type, <<>>, "")
PropOf(name, type, enum, format) ==
    [name |-> name, type |-> type, enum |-> enum, format |-> format]
Prop(name, type) == PropOf(name, type, <<>>, "")

DetailsList == [parameters |-> <<>>, requestBody |-> NoBody]
DetailsCreate ==
    [parameters |-> <<>>,
     requestBody |-> [present |-> TRUE, type |-> "object",
                      properties |-> << Prop("title", "string"),
                                        Prop("author", "string") >>,
                      required |-> <<"title", "author">>]]
DetailsGetById ==
    [parameters |-> << Param("id", "path", TRUE, "integer") >>, requestBody |-> NoBody]
DetailsSearch ==
    [parameters |-> << Param("x-group", "header", TRUE, "string"),
                       Param("q", "query", TRUE, "string") >>,
     requestBody |-> NoBody]

DetailsHeaders ==
    [parameters |-> << Param("x-group", "header", TRUE, "string"),
                       Param("X-Hospital", "header", FALSE, "string"),
                       Param("x-trace", "header", FALSE, "string") >>,
     requestBody |-> NoBody]

\* a query parameter object without a `name` key, on which param["name"]
\* raises KeyError
NoName == "<no name>"
DetailsNameless ==
    [parameters |-> << Param(NoName, "query", FALSE, "string") >>, requestBody |-> NoBody]

\* One (path, key) entry of the document's `paths` mapping, in iteration
\* order.  item = "mapping" is a path item that is a JSON object; item =
\* "scalar" is a path-level value that is no object (e.g. a specification
\* extension "x-internal": true), on which `methods.items()` raises.
Entry(path, key, opId, details) ==
    [path |-> path, key |-> key, operationId |-> opId, details |-> details, item |-> "mapping"]

EListBooks  == Entry(<<"/", "books">>, "get", <<"listBooks">>, DetailsList)
ECreateBook == Entry(<<"/", "books">>, "post", <<"createBook">>, DetailsCreate)
EGetBook    == Entry(<<"/", "books", "/", "{", "id", "}">>, "get", NoId, DetailsGetById)
EShared     == Entry(<<"/", "books">>, "parameters", NoId, DetailsList)
ESearch     == Entry(<<"/", "search">>, "GET", <<"listBooks">>, DetailsSearch)
EExtension  == [path |-> <<"x-internal">>, key |-> "", operationId |-> NoId,
                details |-> DetailsList, item |-> "scalar"]

EReport     == Entry(<<"/", "report">>, "get", <<"report">>, DetailsHeaders)
EBroken     == Entry(<<"/", "broken">>, "get", <<"broken">>, DetailsNameless)
EDeleteBook == Entry(<<"/", "books">>, "delete", <<"deleteBook">>, DetailsList)
EPatchBook  == Entry(<<"/", "books">>, "patch", <<"patchBook">>, DetailsList)
EHeadBooks  == Entry(<<"/", "books">>, "head", <<"headBooks">>, DetailsList)
EOptions    == Entry(<<"/", "books">>, "options", <<"optionsBooks">>, DetailsList)

EntryLib == {EListBooks, ECreateBook, EGetBook, EShared, ESearch, EExtension}

RECURSIVE SeqsUpTo(_, _)
SeqsUpTo(S, n) ==
    IF n = 0 THEN {<<>>}
    ELSE LET shorter == SeqsUpTo(S, n - 1)
         IN  shorter \cup {Append(s, e) : s \in shorter, e \in S}

\* A JSON object holds each (path, key) once, and the keys of one path item
\* are iterated together.
IsDocument(d) ==
    /\ \A i, j \in 1..Len(d) : i # j => <<d[i].path, d[i].key>> # <<d[j].path, d[j].key>>
    /\ \A i, j, k \in 1..Len(d) :
          (i < j /\ j < k /\ d[i].path = d[k].path) => d[j].path = d[i].path

Documents == {d \in SeqsUpTo(EntryLib, MaxDocLen) : IsDocument(d)}

\* documents with an operation whose parameters run_single_test cannot read
BrokenDocuments == {<<EBroken>>, <<EBroken, EGetBook>>, <<ECreateBook, EBroken>>}

(***************************************************************************)
(* String helpers.                                                         *)
(***************************************************************************)
RECURSIVE Str(_)
Str(tokens) == IF tokens = <<>> THEN "" ELSE Head(tokens) \o Str(Tail(tokens))

\* str.lower() / str.upper() on the method keys of the sample documents
Lower(k) == CASE k = "GET" -> "get" [] k = "POST" -> "post" [] OTHER -> k
Upper(k) == CASE k = "get" -> "GET" [] k = "post" -> "POST" [] k = "put" -> "PUT"
              [] k = "delete" -> "DELETE" [] k = "parameters" -> "PARAMETERS"
              [] k = "patch" -> "PATCH" [] k = "head" -> "HEAD" [] k = "options" -> "OPTIONS"
              [] OTHER -> k

HttpVerbs == {"get", "post", "put", "delete", "patch", "head", "options"}

\* str.replace("/", "_")
ReplaceSlash(tokens) == [i \in 1..Len(tokens) |-> IF tokens[i] = "/" THEN "_" ELSE tokens[i]]

\* re.sub(r"[^a-zA-Z0-9_\-\.]+", "_", op_id): every maximal run of other
\* characters becomes one underscore
Unsafe(t) == t \in {"/", "{", "}"}
RECURSIVE Sanitize(_, _)
Sanitize(tokens, inRun) ==
    IF tokens = <<>> THEN <<>>
    ELSE IF Unsafe(Head(tokens))
         THEN (IF inRun THEN <<>> ELSE <<"_">>) \o Sanitize(Tail(tokens), TRUE)
         ELSE <<Head(tokens)>> \o Sanitize(Tail(tokens), FALSE)
sanitize_operation_id(op_id) == Str(Sanitize(op_id, FALSE))

(***************************************************************************)
(* test_empi_endpoints.py: argument synthesis and request building.        *)
(***************************************************************************)
\* name.lower().endswith("id") or name.lower() in {"id", "book_id"}, on the
\* parameter and property names of the sample documents
IsIdName(name) == name \in {"id", "book_id"}

\* lines 79-107 on the schemas of the sample documents, which hold no
\* array and no object
synth_value(prop_schema, name) ==
    IF prop_schema.enum # <<>> THEN prop_schema.enum[1]
    ELSE CASE prop_schema.type = "integer" -> (IF IsIdName(name) THEN "1" ELSE "0")
           [] prop_schema.type = "number"  -> "0.0"
           [] prop_schema.type = "boolean" -> "true"
           [] OTHER ->
                IF prop_schema.format = "date-time" THEN "2000-01-01T00:00:00Z"
                ELSE IF prop_schema.format = "date" THEN "2000-01-01"
                ELSE IF name # "" THEN "sample_" \o name ELSE "sample"

\* line 168: the schema synth_value gets for a parameter, {"type": ptype}
TypeOnly(type) == [type |-> type, enum |-> <<>>, format |-> ""]

ParamNames(details, locs) ==
    {details.parameters[i].name : i \in {j \in 1..Len(details.parameters) :
                                            details.parameters[j].in \in locs}}
ParamNamed(details, locs, n) ==
    details.parameters[CHOOSE i \in 1..Len(details.parameters) :
        /\ details.parameters[i].name = n
        /\ details.parameters[i].in \in locs
        /\ \A k \in (i + 1)..Len(details.parameters) :
              ~(details.parameters[k].name = n /\ details.parameters[k].in \in locs)]
BodyIsObject(details) == details.requestBody.present /\ details.requestBody.type = "object"
BodyPropNames(details) ==
    IF BodyIsObject(details)
    THEN {details.requestBody.properties[i].name : i \in 1..Len(details.requestBody.properties)}
    ELSE {}
BodyPropNamed(details, n) ==
    details.requestBody.properties[CHOOSE i \in 1..Len(details.requestBody.properties) :
        details.requestBody.properties[i].name = n]

\* the mapping name -> synthesized value; a body property overwrites a
\* parameter of the same name (it is assigned later)
synthesize_base_args(details) ==
    [n \in ParamNames(details, {"path", "query"}) \cup BodyPropNames(details) |->
        IF n \in BodyPropNames(details)
        THEN synth_value(BodyPropNamed(details, n), n)
        ELSE synth_value(TypeOnly(ParamNamed(details, {"path", "query"}, n).type), n)]

\* line 166: param["name"] of a path or query parameter without a name
synthesize_raises(details) == NoName \in ParamNames(details, {"path", "query"})

\* build_request_from_operation raises ValueError when a declared path
\* parameter has no argument
BuildRaises(details, args) == \E n \in ParamNames(details, {"path"}) : n \notin DOMAIN args

\* required_fields of run_single_test, in order: required path/query
\* parameters, then the body schema's required list
RECURSIVE RequiredParams(_)
RequiredParams(params) ==
    IF params = <<>> THEN <<>>
    ELSE (IF Head(params).required /\ Head(params).in \in {"path", "query"}
          THEN <<Head(params).name>> ELSE <<>>) \o RequiredParams(Tail(params))
required_fields(details) ==
    RequiredParams(details.parameters)
        \o (IF BodyIsObject(details) THEN details.requestBody.required ELSE <<>>)

\* has_numeric_path looking for integer parameters only
has_numeric_path_IntegerOnly(details) ==
    \E i \in 1..Len(details.parameters) :
        /\ details.parameters[i].type = "integer"
        /\ details.parameters[i].in = "path"

has_numeric_path(details) ==
    \E i \in 1..Len(details.parameters) :
        /\ details.parameters[i].type \in {"integer", "number"}
        /\ details.parameters[i].in = "path"

\* the scenario list with the two negative scenarios exchanged
scenarios_InvalidIdFirst(details) ==
    << [label |-> "happy_path", omit_required |-> "", tweak_id_to_invalid |-> FALSE] >>
    \o (IF has_numeric_path(details)
        THEN << [label |-> "negative_invalid_id", omit_required |-> "",
                 tweak_id_to_invalid |-> TRUE] >>
        ELSE <<>>)
    \o (IF required_fields(details) # <<>>
        THEN << [label |-> "negative_missing_required",
                 omit_required |-> required_fields(details)[1],
                 tweak_id_to_invalid |-> FALSE] >>
        ELSE <<>>)

\* the scenario list of run_single_test, in its fixed order
scenarios(details) ==
    << [label |-> "happy_path", omit_required |-> "", tweak_id_to_invalid |-> FALSE] >>
    \o (IF required_fields(details) # <<>>
        THEN << [label |-> "negative_missing_required",
                 omit_required |-> required_fields(details)[1],
                 tweak_id_to_invalid |-> FALSE] >>
        ELSE <<>>)
    \o (IF has_numeric_path(details)
        THEN << [label |-> "negative_invalid_id", omit_required |-> "",
                 tweak_id_to_invalid |-> TRUE] >>
        ELSE <<>>)

\* the arguments _execute hands to build_request_from_operation
NumericPathNames(details) ==
    {details.parameters[i].name : i \in {j \in 1..Len(details.parameters) :
        /\ details.parameters[j].in = "path"
        /\ details.parameters[j].type \in {"integer", "number"}}}
\* _execute removing every required field instead of the one it is handed
execute_args_OmitAllRequired(details, sc) ==
    LET base == synthesize_base_args(details)
        all == {required_fields(details)[i] : i \in 1..Len(required_fields(details))}
        kept == IF sc.omit_required # "" THEN DOMAIN base \ all ELSE DOMAIN base
    IN  [n \in kept |->
            IF sc.tweak_id_to_invalid /\ n \in NumericPathNames(details)
            THEN "999999999" ELSE base[n]]
execute_args(details, sc) ==
    LET base == synthesize_base_args(details)
        kept == IF sc.omit_required # "" THEN DOMAIN base \ {sc.omit_required} ELSE DOMAIN base
    IN  [n \in kept |->
            IF sc.tweak_id_to_invalid /\ n \in NumericPathNames(details)
            THEN "999999999" ELSE base[n]]

\* scenarios and BuildRaises tabulated over the sample operations
DetailsLib == {e.details : e \in EntryLib \cup {EBroken}}
ScenariosOf == [d \in DetailsLib |-> scenarios(d)]
BuildRaisesOf ==
    [d \in DetailsLib |-> [i \in 1..Len(scenarios(d)) |->
        BuildRaises(d, execute_args(d, scenarios(d)[i]))]]

(***************************************************************************)
(* test_empi_endpoints.py: the arguments of the scenarios of one           *)
(* operation, for operations assembled from a library of parameters and    *)
(* request bodies.                                                         *)
(***************************************************************************)
MaxParams == 2

ParamLib ==
    {Param("id", "path", TRUE, "integer"), Param("code", "path", TRUE, "string"),
     Param("ratio", "path", TRUE, "number"), Param("q", "query", TRUE, "string"),
     Param("page", "query", FALSE, "integer"), Param("id", "query", FALSE, "string"),
     Param("x-group", "header", TRUE, "string")}

\* the last body requires a field it declares no property for
BodyLib ==
    {NoBody, DetailsCreate.requestBody,
     [present |-> TRUE, type |-> "object",
      properties |-> << Prop("id", "string"),
                        Prop("title", "string") >>,
      required |-> <<"id">>],
     [present |-> TRUE, type |-> "object",
      properties |-> << Prop("title", "string") >>,
      required |-> <<"isbn", "title">>]}

PlanDetails ==
    {[parameters |-> ps, requestBody |-> b] : ps \in SeqsUpTo(ParamLib, MaxParams), b \in BodyLib}

VARIABLE plan   \* run_single_test of one operation: details, base_args, scenarios, and the
                \* label and arguments of the scenario _execute was called for last

NoPlan == [pc |-> "idle", details |-> DetailsList, base_args |-> <<>>, scenarios |-> <<>>,
           idx |-> 0, label |-> "", args |-> <<>>]

PlanInit ==
    \E d \in PlanDetails : plan = [NoPlan EXCEPT !.pc = "called", !.details = d]

\* lines 190-191 and 272-294: the base arguments and the scenario list
PlanPrepare ==
    /\ plan.pc = "called"
    /\ plan' = [plan EXCEPT !.pc = "prepared",
                            !.base_args = synthesize_base_args(plan.details),
                            !.scenarios = scenarios(plan.details)]

\* lines 194-207 for the next scenario of the list: args is a copy of
\* base_args, which stays as it is
PlanExecute ==
    /\ plan.pc \in {"prepared", "executed"}
    /\ plan.idx < Len(plan.scenarios)
    /\ plan' = [plan EXCEPT !.pc = "executed",
                            !.idx = plan.idx + 1,
                            !.label = plan.scenarios[plan.idx + 1].label,
                            !.args = execute_args(plan.details, plan.scenarios[plan.idx + 1])]

(***************************************************************************)
(* test_empi_endpoints.py: one run of the script, main() and main_async(). *)
(***************************************************************************)
VARIABLE run    \* pc, whether the document was loaded, the exit code, the report file of
                \* this run ("none" | "partial" | "complete"), the number of completed
                \* writes, whether the run was interrupted

NoRun == [pc |-> "off", loaded |-> FALSE, exit_code |-> -1, file |-> "none", writes |-> 0,
          interrupted |-> FALSE]
Exit(r, code) == [r EXCEPT !.pc = "exited", !.exit_code = code]

(***************************************************************************)
(* test_empi_endpoints.py: the state of one run of test_all_endpoints.     *)
(***************************************************************************)
VARIABLES
    openapi,        \* the document handed to test_all_endpoints
    concurrency,    \* the ceiling handed to asyncio.Semaphore
    filter_text,    \* the --filter text handed to test_all_endpoints
    tasks,          \* the (operationId, method, path, details) list
    runner_pc,      \* "workers" | "returned" | "raised"
    wstate,         \* per worker: pc, scenario index, run_single_test.results
    sem_value,      \* Semaphore._value
    sem_waiters,    \* Semaphore._waiters, FIFO
    results,        \* test_all_endpoints.results, in completion order
    report          \* the value test_all_endpoints returns

runnerVars == <<plan, run, openapi, concurrency, filter_text, tasks, runner_pc, wstate, sem_value, sem_waiters,
                results, report>>

\* the status codes and the transport failure a request of a scenario can end with
StatusCodes == {200, 404, 422}

NoReport == [summary |-> [total |-> -1, passed |-> -1, failed |-> -1], results |-> <<>>]

\* the texts --filter is given in the sample runs; None and "" are both falsy
NoFilter == ""
FilterChoices == {NoFilter, "LIST"}

\* str.lower() on a filter text and on the tokens of an operation id
LowerText(t) == CASE t = "LIST" -> "list" [] t = "listBooks" -> "listbooks"
                  [] t = "createBook" -> "createbook" [] OTHER -> t

\* `sub in text` for a lower-case filter text and the lower-case target: the
\* sample filter has no punctuation, so it lies within one token
Contains(tokens, sub) ==
    \E i \in 1..Len(tokens) : <<LowerText(tokens[i]), sub>> \in {<<"list", "list">>, <<"listbooks", "list">>}

\* lines 354-357: the operation is kept when no filter is given or the filter
\* occurs, letter case aside, in operationId + " " + summary (the sample
\* operations have neither summary nor description)
passes_filter_All(op_id, text) == TRUE
passes_filter(op_id, text) ==
    text = NoFilter \/ Contains(op_id \o <<" ">>, LowerText(text))

\* the task list built by lines 345-358: one task per key that is an HTTP
\* verb and passes the filter; a path item that is no mapping raises in
\* methods.items()
RECURSIVE build_tasks(_, _)
build_tasks(doc, text) ==
    IF doc = <<>> THEN [raised |-> FALSE, tasks |-> <<>>]
    ELSE LET e == Head(doc)
             rest == build_tasks(Tail(doc), text)
             op_id == IF e.operationId # NoId THEN e.operationId ELSE <<e.key, "_">> \o e.path
         IN  IF e.item # "mapping" THEN [raised |-> TRUE, tasks |-> <<>>]
             ELSE IF Lower(e.key) \notin HttpVerbs THEN rest
             ELSE IF ~passes_filter(op_id, text) THEN rest
             ELSE [raised |-> rest.raised,
                   tasks |-> << [op_id |-> op_id,
                                 method |-> Upper(e.key),
                                 path |-> e.path,
                                 details |-> e.details] >> \o rest.tasks]

\* one scenario outcome, as _execute returns it
BuildError(label) ==
    [label |-> label, status |-> "error", sent |-> FALSE, status_code |-> 0, ok |-> FALSE]
RequestError(label) ==
    [label |-> label, status |-> "fail", sent |-> TRUE, status_code |-> 0, ok |-> FALSE]
Responded(label, code) ==
    [label |-> label, status |-> "", sent |-> TRUE, status_code |-> code,
     ok |-> (200 <= code /\ code < 300)]

\* _execute up to its first suspension: scenarios whose request cannot be
\* built are recorded at once; the result is the index of the scenario whose
\* request is now in flight (or Len + 1) and the outcomes recorded so far
RECURSIVE Advance(_, _, _)
Advance(details, i, res) ==
    IF i > Len(ScenariosOf[details]) THEN [idx |-> i, res |-> res]
    ELSE LET sc == ScenariosOf[details][i]
         IN  IF BuildRaisesOf[details][i]
             THEN Advance(details, i + 1, Append(res, BuildError(sc.label)))
             ELSE [idx |-> i, res |-> res]

\* mapping_expect of run_single_test
predicate(label, r) ==
    CASE label = "happy_path" -> r.ok
      [] label = "negative_missing_required" -> r.status_code \in {400, 422}
      [] label = "negative_invalid_id" -> r.status_code = 404

overall_HappyOnly(res) ==
    IF \E i \in 1..Len(res) : res[i].label = "happy_path" /\ ~res[i].ok
    THEN "FAIL" ELSE "PASS"
\* lines 309-330: FAIL when the recorded outcome of a label fails its predicate
overall(res) ==
    IF \E label \in {"happy_path", "negative_missing_required", "negative_invalid_id"} :
          /\ \E i \in 1..Len(res) : res[i].label = label
          /\ LET last == CHOOSE i \in 1..Len(res) :
                     /\ res[i].label = label
                     /\ \A k \in (i + 1)..Len(res) : res[k].label # label
             IN  ~predicate(label, res[last])
    THEN "FAIL" ELSE "PASS"

run_single_test_result(t, res) ==
    [operationId |-> sanitize_operation_id(t.op_id), method |-> t.method, path |-> t.path,
     scenarios |-> res, overall |-> overall(res),
     reason |-> IF overall(res) = "FAIL" THEN "expected different status" ELSE ""]

runner_exception_Pass(t) ==
    [operationId |-> Str(t.op_id), method |-> t.method, path |-> t.path,
     scenarios |-> <<>>, overall |-> "PASS", reason |-> "runner_exception"]

\* lines 370-378: the result the worker records when run_single_test raises
runner_exception(t) ==
    [operationId |-> Str(t.op_id), method |-> t.method, path |-> t.path,
     scenarios |-> <<>>, overall |-> "FAIL", reason |-> "runner_exception"]


SemLocked_Never(value, waiters) == FALSE
\* Semaphore.locked()
SemLocked(value, waiters) == value = 0 \/ waiters # <<>>

\* Python's order of the operation ids the sample documents produce
IdOrder == <<"broken", "createBook", "get__books_id_", "listBooks">>
StrRank(id) == CHOOSE i \in 1..Len(IdOrder) : IdOrder[i] = id

\* sorted(results, key=operationId): stable, equal ids keep their order
RECURSIVE InsertSorted(_, _)
InsertSorted(sorted, r) ==
    IF sorted = <<>> THEN <<r>>
    ELSE IF StrRank(r.operationId) < StrRank(Head(sorted).operationId)
         THEN <<r>> \o sorted
         ELSE <<Head(sorted)>> \o InsertSorted(Tail(sorted), r)
RECURSIVE SortByOperationId(_)
SortByOperationId(rs) ==
    IF rs = <<>> THEN <<>>
    ELSE InsertSorted(SortByOperationId(SubSeq(rs, 1, Len(rs) - 1)), rs[Len(rs)])

Workers == 1..Len(tasks)
Idle == [pc |-> "created", idx |-> 0, res |-> <<>>]

RunnerInit ==
    /\ openapi \in Documents \cup BrokenDocuments
    /\ concurrency \in 1..MaxConcurrency
    /\ filter_text \in FilterChoices
    /\ tasks = build_tasks(openapi, filter_text).tasks
    /\ runner_pc = IF build_tasks(openapi, filter_text).raised THEN "raised" ELSE "workers"
    /\ wstate = [w \in 1..(IF build_tasks(openapi, filter_text).raised THEN 0 ELSE Len(tasks)) |-> Idle]
    /\ sem_value = concurrency
    /\ sem_waiters = <<>>
    /\ results = <<>>
    /\ report = NoReport

\* Worker w holds a permit (sv, sw: the semaphore after its acquire) and runs
\* run_single_test from scenario i up to the next suspension: either a
\* request is in flight, or the scenarios are exhausted or run_single_test
\* raised at its start (i = 1), the result is appended and the permit
\* released (Semaphore.release wakes the first waiter and hands it the
\* permit).
RunFrom(w, i, res, sv, sw) ==
    LET raised == i = 1 /\ synthesize_raises(tasks[w].details)
        adv == IF raised THEN [idx |-> 0, res |-> <<>>]
               ELSE Advance(tasks[w].details, i, res)
        fin == raised \/ adv.idx > Len(ScenariosOf[tasks[w].details])
        woke == sw # <<>>
    IN  IF ~fin
        THEN /\ wstate' = [wstate EXCEPT ![w] = [pc |-> "running", idx |-> adv.idx,
                                                 res |-> adv.res]]
             /\ sem_value' = sv
             /\ sem_waiters' = sw
             /\ results' = results
        ELSE /\ results' = Append(results,
                                  IF raised THEN runner_exception(tasks[w])
                                  ELSE run_single_test_result(tasks[w], adv.res))
             /\ sem_value' = IF woke THEN sv ELSE sv + 1
             /\ sem_waiters' = IF woke THEN Tail(sw) ELSE sw
             /\ wstate' = [v \in DOMAIN wstate |->
                             IF v = w THEN [pc |-> "done", idx |-> adv.idx, res |-> adv.res]
                             ELSE IF woke /\ v = Head(sw)
                                  THEN [wstate[v] EXCEPT !.pc = "woken"]
                                  ELSE wstate[v]]

\* the event loop runs the tasks gather() created, in order: `async with sem`
WorkerStart(w) ==
    /\ runner_pc = "workers"
    /\ wstate[w].pc = "created"
    /\ \A v \in DOMAIN wstate : v < w => wstate[v].pc # "created"
    /\ IF SemLocked(sem_value, sem_waiters)
       THEN /\ sem_waiters' = Append(sem_waiters, w)
            /\ wstate' = [wstate EXCEPT ![w].pc = "waiting"]
            /\ UNCHANGED <<sem_value, results>>
       ELSE RunFrom(w, 1, <<>>, sem_value - 1, sem_waiters)
    /\ UNCHANGED <<openapi, concurrency, filter_text, tasks, runner_pc, report>>

\* a waiter whose future release() completed resumes inside acquire()
WorkerResume(w) ==
    /\ runner_pc = "workers"
    /\ wstate[w].pc = "woken"
    /\ RunFrom(w, 1, <<>>, sem_value, sem_waiters)
    /\ UNCHANGED <<openapi, concurrency, filter_text, tasks, runner_pc, report>>

\* the response of the scenario in flight arrives; the worker records it and
\* runs on to its next suspension
WorkerResponse(w, code) ==
    /\ runner_pc = "workers"
    /\ wstate[w].pc = "running"
    /\ \A v \in DOMAIN wstate : wstate[v].pc # "created"
    /\ LET label == ScenariosOf[tasks[w].details][wstate[w].idx].label
       IN  RunFrom(w, wstate[w].idx + 1, Append(wstate[w].res, Responded(label, code)),
                   sem_value, sem_waiters)
    /\ UNCHANGED <<openapi, concurrency, filter_text, tasks, runner_pc, report>>

\* the request of the scenario in flight raises (lines 254-260)
WorkerRequestError(w) ==
    /\ runner_pc = "workers"
    /\ wstate[w].pc = "running"
    /\ \A v \in DOMAIN wstate : wstate[v].pc # "created"
    /\ LET label == ScenariosOf[tasks[w].details][wstate[w].idx].label
       IN  RunFrom(w, wstate[w].idx + 1, Append(wstate[w].res, RequestError(label)),
                   sem_value, sem_waiters)
    /\ UNCHANGED <<openapi, concurrency, filter_text, tasks, runner_pc, report>>

\* gather() returned: lines 382-391
Aggregate ==
    /\ runner_pc = "workers"
    /\ \A w \in DOMAIN wstate : wstate[w].pc = "done"
    /\ LET passed == Cardinality({i \in 1..Len(results) : results[i].overall = "PASS"})
       IN  report' = [summary |-> [total |-> Len(results), passed |-> passed,
                                   failed |-> Len(results) - passed],
                      results |-> SortByOperationId(results)]
    /\ runner_pc' = "returned"
    /\ UNCHANGED <<openapi, concurrency, filter_text, tasks, wstate, sem_value, sem_waiters, results>>

(***************************************************************************)
(* fast_mcp_server.py: configuration and the Spec Locator.                 *)
(* A URL is its base and the path segments after it; a context path is a   *)
(* sequence of segments (the empty sequence is the empty string).          *)
(***************************************************************************)
API_BASE_URL == "http://localhost:3008"
OPENAPI_PATH == <<"v3", "api-docs">>
NoUrl == [base |-> "", segs |-> <<>>]
Url(segs) == [base |-> API_BASE_URL, segs |-> segs]

\* the values the environment can give CONTEXT_PATH and OPENAPI_FULL_URL
ContextPathChoices == {<<>>, <<"csi">>}
FullUrlChoices == {NoUrl, Url(<<"docs", "v3", "api-docs">>)}

candidates_BareFirst(context_path, full_url) ==
    IF full_url # NoUrl THEN <<full_url>>
    ELSE << Url(OPENAPI_PATH) >>
         \o (IF context_path # <<>> THEN <<Url(context_path \o OPENAPI_PATH)>> ELSE <<>>)
         \o << Url(<<"api">> \o OPENAPI_PATH),
               Url(<<"csi-api", "empi-api", "api">> \o OPENAPI_PATH) >>
\* lines 121-135: the candidate URLs in priority order
candidates(context_path, full_url) ==
    IF full_url # NoUrl THEN <<full_url>>
    ELSE (IF context_path # <<>> THEN <<Url(context_path \o OPENAPI_PATH)>> ELSE <<>>)
         \o << Url(OPENAPI_PATH),
               Url(<<"api">> \o OPENAPI_PATH),
               Url(<<"csi-api", "empi-api", "api">> \o OPENAPI_PATH) >>

\* what a GET of a candidate can produce
\*   "404"            status 404
\*   "500"            another non-success status: raise_for_status raises ClientResponseError
\*   "transport"      session.get raises a ClientError
\*   "not_json"       status 200, response.json() raises JSONDecodeError
\*   "swagger_number" a JSON object whose "swagger" is no string: .startswith raises
\*   "not_openapi"    JSON without an "openapi" field or a "swagger" field starting with "2"
\*   "document"       a structurally valid document
FailureKinds == {"404", "500", "transport", "not_json", "swagger_number", "not_openapi"}
Failure(kind) == [kind |-> kind, doc |-> <<>>]
Served(doc) == [kind |-> "document", doc |-> doc]

NoError == [error |-> "", at |-> NoUrl]
NoData == [tag |-> "none", doc |-> <<>>, error |-> NoError]
ErrorData(err) == [tag |-> "error", doc |-> <<>>, error |-> err]
DocData(doc) == [tag |-> "doc", doc |-> doc, error |-> NoError]

\* what the body of the candidate loop raises for a response, "" when nothing
Raised(resp) ==
    CASE resp.kind \in {"500", "transport"} -> "ClientError"
      [] resp.kind = "not_json" -> "JSONDecodeError"
      [] resp.kind = "swagger_number" -> "AttributeError"
      [] OTHER -> ""

except_clauses_ClientErrorOnly(cand, exc) ==
    IF exc = "ClientError"
    THEN [caught |-> TRUE, last_error |-> [error |-> "Client error fetching OpenAPI", at |-> cand]]
    ELSE [caught |-> FALSE, last_error |-> NoError]
\* lines 168-171: the two except clauses of the candidate loop
except_clauses(cand, exc) ==
    IF exc = "ClientError"
    THEN [caught |-> TRUE, last_error |-> [error |-> "Client error fetching OpenAPI", at |-> cand]]
    ELSE [caught |-> TRUE, last_error |-> [error |-> "Failed to fetch OpenAPI", at |-> cand]]

\* derive_context putting the text of the winning candidate behind the
\* runtime context path it finds
derive_context_Accumulates(cand, runtime) ==
    IF /\ cand.base = API_BASE_URL
       /\ Len(cand.segs) >= Len(OPENAPI_PATH)
       /\ SubSeq(cand.segs, Len(cand.segs) - Len(OPENAPI_PATH) + 1, Len(cand.segs)) = OPENAPI_PATH
    THEN runtime \o SubSeq(cand.segs, 1, Len(cand.segs) - Len(OPENAPI_PATH))
    ELSE runtime

derive_context_NoStrip(cand, runtime) ==
    IF cand.base = API_BASE_URL /\ Len(cand.segs) >= Len(OPENAPI_PATH)
    THEN cand.segs
    ELSE runtime
\* lines 158-161: the text of the winning candidate between the base URL and
\* "/" + path; the runtime context path stays when the candidate has another form
derive_context(cand, runtime) ==
    IF /\ cand.base = API_BASE_URL
       /\ Len(cand.segs) >= Len(OPENAPI_PATH)
       /\ SubSeq(cand.segs, Len(cand.segs) - Len(OPENAPI_PATH) + 1, Len(cand.segs)) = OPENAPI_PATH
    THEN SubSeq(cand.segs, 1, Len(cand.segs) - Len(OPENAPI_PATH))
    ELSE runtime

\* lines 138-173: one iteration of the candidate loop.  The result says
\* whether the function returns now (and what), the soft error recorded, and
\* the two globals afterwards.  An exception neither except clause of the
\* loop catches reaches the outer handler (lines 172-173), which returns
try_candidate(cand, resp, last_error, full_url, runtime, resolved) ==
    LET same == [returns |-> FALSE, data |-> NoData,
                 last_error |-> last_error, runtime |-> runtime, resolved |-> resolved]
    IN  IF Raised(resp) # ""
        THEN IF except_clauses(cand, Raised(resp)).caught
             THEN [same EXCEPT !.last_error = except_clauses(cand, Raised(resp)).last_error]
             ELSE [same EXCEPT !.returns = TRUE,
                               !.data = ErrorData([error |-> "Failed during OpenAPI discovery",
                                                   at |-> NoUrl])]
        ELSE IF resp.kind = "404"
        THEN [same EXCEPT !.last_error = [error |-> "404 Not Found for OpenAPI", at |-> cand]]
        ELSE IF resp.kind = "document"
        THEN [same EXCEPT !.returns = TRUE, !.data = DocData(resp.doc),
                          !.resolved = cand,
                          !.runtime = IF full_url = NoUrl THEN derive_context(cand, runtime)
                                      ELSE runtime]
        ELSE [same EXCEPT !.last_error = [error |-> "Unexpected response: not an OpenAPI JSON",
                                          at |-> cand]]

\* line 176
all_failed(last_error) ==
    IF last_error # NoError THEN ErrorData(last_error)
    ELSE ErrorData([error |-> "OpenAPI fetch failed for all candidates", at |-> NoUrl])


(***************************************************************************)
(* fetch_openapi_spec, one GET at a time.                                  *)
(***************************************************************************)
VARIABLES
    env,                    \* CONTEXT_PATH, OPENAPI_FULL_URL, DEFAULT_X_GROUP, DEFAULT_X_HOSPITAL
    CONTEXT_PATH_RUNTIME,
    RESOLVED_OPENAPI_URL,
    fetch                   \* the locals of the running fetch_openapi_spec call, the
                            \* GETs it sent and the responses it got

\* the documents the target serves in the runs of the locator and the server
DocBooks == <<EListBooks, EShared, EGetBook>>
DocSearch == <<ESearch, ECreateBook>>
DocBroken == <<EListBooks, EExtension, EGetBook>>
ServedDocs == {DocBooks, DocSearch, DocBroken}
\* the document behind the header tools: three declared headers, a path
\* parameter, no declared header
DocHeaders == <<EReport, EGetBook, EListBooks>>
\* a document with an operation of every verb the catalog accepts but PUT
DocVerbs == <<EGetBook, ECreateBook, EDeleteBook, EPatchBook, EHeadBooks, EOptions>>

NoValue == ""
EnvChoices ==
    {[CONTEXT_PATH |-> c, OPENAPI_FULL_URL |-> u, DEFAULT_X_GROUP |-> g, DEFAULT_X_HOSPITAL |-> g] :
        c \in ContextPathChoices, u \in FullUrlChoices, g \in {NoValue, "7"}}

FetchIdle == [pc |-> "idle", idx |-> 0, last_error |-> NoError, requested |-> <<>>,
              responses |-> <<>>, result |-> NoData]

Candidates == candidates(env.CONTEXT_PATH, env.OPENAPI_FULL_URL)

\* a caller enters fetch_openapi_spec: the GET of the first candidate is sent
FetchCall ==
    /\ fetch.pc \in {"idle", "returned"}
    /\ fetch' = [pc |-> "awaiting", idx |-> 1, last_error |-> NoError,
                 requested |-> <<Candidates[1]>>, responses |-> <<>>, result |-> NoData]
    /\ UNCHANGED <<env, CONTEXT_PATH_RUNTIME, RESOLVED_OPENAPI_URL>>

\* the GET in flight ends with resp: the function returns, or records the
\* soft error and sends the GET of the next candidate, or runs out of
\* candidates and returns line 176's value
FetchResponse(resp) ==
    /\ fetch.pc = "awaiting"
    /\ LET t == try_candidate(Candidates[fetch.idx], resp, fetch.last_error,
                              env.OPENAPI_FULL_URL, CONTEXT_PATH_RUNTIME, RESOLVED_OPENAPI_URL)
       IN  /\ CONTEXT_PATH_RUNTIME' = t.runtime
           /\ RESOLVED_OPENAPI_URL' = t.resolved
           /\ fetch' =
                IF t.returns
                THEN [fetch EXCEPT !.pc = "returned", !.result = t.data,
                                   !.last_error = t.last_error,
                                   !.responses = Append(fetch.responses, resp)]
                ELSE IF fetch.idx < Len(Candidates)
                THEN [fetch EXCEPT !.idx = fetch.idx + 1, !.last_error = t.last_error,
                                   !.requested = Append(fetch.requested,
                                                        Candidates[fetch.idx + 1]),
                                   !.responses = Append(fetch.responses, resp)]
                ELSE [fetch EXCEPT !.pc = "returned", !.last_error = t.last_error,
                                   !.result = all_failed(t.last_error),
                                   !.responses = Append(fetch.responses, resp)]
    /\ UNCHANGED env

Responses == {Failure(k) : k \in FailureKinds} \cup {Served(d) : d \in ServedDocs}

(***************************************************************************)
(* fast_mcp_server.py: the Operation Catalog.                              *)
(***************************************************************************)
EmptyMap == [k \in {} |-> 0]
Put(map, k, v) == [x \in DOMAIN map \cup {k} |-> IF x = k THEN v ELSE map[x]]

\* line 239: details.get("operationId", f"{method}_{path}").replace("/", "_")
operation_id(e) ==
    Str(ReplaceSlash(IF e.operationId # NoId THEN e.operationId ELSE <<e.key, "_">> \o e.path))

catalog_entry_KeepFirst(map, e) ==
    IF e.item # "mapping" THEN [raised |-> TRUE, map |-> map]
    ELSE IF Lower(e.key) \notin HttpVerbs \/ operation_id(e) \in DOMAIN map
    THEN [raised |-> FALSE, map |-> map]
    ELSE [raised |-> FALSE,
          map |-> Put(map, operation_id(e),
                      [method |-> Upper(e.key), path |-> e.path, details |-> e.details])]
\* lines 235-240: what the loop does with one (path, key) entry
catalog_entry(map, e) ==
    IF e.item # "mapping" THEN [raised |-> TRUE, map |-> map]
    ELSE IF Lower(e.key) \notin HttpVerbs THEN [raised |-> FALSE, map |-> map]
    ELSE [raised |-> FALSE,
          map |-> Put(map, operation_id(e),
                      [method |-> Upper(e.key), path |-> e.path, details |-> e.details])]

\* lines 234-240 on a whole document: the map as the loop leaves it, and
\* whether the loop raised (the entries before the raise stay in the map)
RECURSIVE build_catalog_from(_, _)
build_catalog_from(map, doc) ==
    IF doc = <<>> THEN [raised |-> FALSE, map |-> map]
    ELSE LET one == catalog_entry(map, Head(doc))
         IN  IF one.raised THEN one ELSE build_catalog_from(one.map, Tail(doc))
build_catalog(doc) == build_catalog_from(EmptyMap, doc)

\* the loop of lines 234-240 on any document, one entry at a time
VARIABLE catalog   \* doc, the number of entries done, the map so far, pc

CatalogInit == catalog \in {[doc |-> d, done |-> 0, map |-> EmptyMap, pc |-> "loop"] :
                               d \in Documents}

CatalogStep ==
    /\ catalog.pc = "loop"
    /\ catalog.done < Len(catalog.doc)
    /\ LET one == catalog_entry(catalog.map, catalog.doc[catalog.done + 1])
       IN  catalog' = IF one.raised
                      THEN [catalog EXCEPT !.pc = "raised"]
                      ELSE [catalog EXCEPT !.done = catalog.done + 1, !.map = one.map]

CatalogFinish ==
    /\ catalog.pc = "loop"
    /\ catalog.done = Len(catalog.doc)
    /\ catalog' = [catalog EXCEPT !.pc = "built"]

(***************************************************************************)
(* fast_mcp_server.py: request synthesis (the part call_tool's checks use) *)
(***************************************************************************)
EmptyArgs == [k \in {} |-> ""]

\* str.lower() and str.replace("-", "_") on the header and argument names
LowerName(n) == CASE n = "X-Group" -> "x-group" [] n = "X-Hospital" -> "x-hospital"
                  [] n = "X_Group" -> "x_group" [] n = "X_Hospital" -> "x_hospital"
                  [] n = "X-Trace" -> "x-trace" [] n = "X_Trace" -> "x_trace"
                  [] n = "X-HOSPITAL" -> "x-hospital" [] n = "X-GROUP" -> "x-group"
                  [] OTHER -> n
DashToUnderscore(n) == CASE n = "x-group" -> "x_group" [] n = "x-hospital" -> "x_hospital"
                         [] n = "x-trace" -> "x_trace"
                         [] OTHER -> n

\* lines 258, 266-273: the argument key that supplies header parameter pname
\* (the argument mappings of the model hold at most one key per lower-case
\* form, so arg_keys loses none)
provided_key(pname, arguments) ==
    IF pname \in DOMAIN arguments THEN pname
    ELSE IF \E k \in DOMAIN arguments : LowerName(k) = LowerName(pname)
    THEN CHOOSE k \in DOMAIN arguments : LowerName(k) = LowerName(pname)
    ELSE IF \E k \in DOMAIN arguments : LowerName(k) = DashToUnderscore(LowerName(pname))
    THEN CHOOSE k \in DOMAIN arguments : LowerName(k) = DashToUnderscore(LowerName(pname))
    ELSE NoValue

header_value_DefaultFirst(pname, arguments, user_group, user_hospital, default_group, default_hospital) ==
    IF provided_key(pname, arguments) # NoValue THEN arguments[provided_key(pname, arguments)]
    ELSE IF LowerName(pname) = "x-group"
    THEN (IF default_group # NoValue THEN default_group ELSE user_group)
    ELSE IF LowerName(pname) = "x-hospital"
    THEN (IF default_hospital # NoValue THEN default_hospital ELSE user_hospital)
    ELSE NoValue
header_value_OverrideFirst(pname, arguments, user_group, user_hospital, default_group, default_hospital) ==
    IF LowerName(pname) = "x-group" /\ user_group # NoValue THEN user_group
    ELSE IF LowerName(pname) = "x-hospital" /\ user_hospital # NoValue THEN user_hospital
    ELSE IF provided_key(pname, arguments) # NoValue
    THEN arguments[provided_key(pname, arguments)]
    ELSE IF LowerName(pname) = "x-group" THEN default_group
    ELSE IF LowerName(pname) = "x-hospital" THEN default_hospital
    ELSE NoValue
\* lines 264-288 for one header parameter
header_value(pname, arguments, user_group, user_hospital, default_group, default_hospital) ==
    IF provided_key(pname, arguments) # NoValue THEN arguments[provided_key(pname, arguments)]
    ELSE IF LowerName(pname) = "x-group"
    THEN (IF user_group # NoValue THEN user_group ELSE default_group)
    ELSE IF LowerName(pname) = "x-hospital"
    THEN (IF user_hospital # NoValue THEN user_hospital ELSE default_hospital)
    ELSE NoValue

\* the headers mapping build_request_from_operation returns: a header with
\* an explicit argument is set whatever the value, an injected one only when
\* an override or a default exists
operation_headers(details, arguments, user_group, user_hospital, default_group, default_hospital) ==
    LET names == {n \in ParamNames(details, {"header"}) :
                     \/ provided_key(n, arguments) # NoValue
                     \/ header_value(n, arguments, user_group, user_hospital,
                                     default_group, default_hospital) # NoValue}
    IN  [n \in names |-> header_value(n, arguments, user_group, user_hospital,
                                      default_group, default_hospital)]

\* lines 246-250
server_build_raises_Never(details, arguments) == FALSE

server_build_raises(details, arguments) ==
    \E n \in ParamNames(details, {"path"}) : n \notin DOMAIN arguments

\* lines 243-301: whether request synthesis raises, and the headers it returns
build_request_from_operation(details, arguments, user_group, user_hospital, default_group, default_hospital) ==
    IF server_build_raises(details, arguments)
    THEN [raised |-> TRUE, headers |-> EmptyArgs]
    ELSE [raised |-> FALSE,
          headers |-> operation_headers(details, arguments, user_group, user_hospital,
                                        default_group, default_hospital)]

\* lines 504-515: call_tool adds the two headers when neither spelling is there
ensure_header(headers, lower, title, user, default) ==
    IF lower \notin DOMAIN headers /\ title \notin DOMAIN headers
       /\ (user # NoValue \/ default # NoValue)
    THEN Put(headers, lower, IF user # NoValue THEN user ELSE default)
    ELSE headers

\* the check that asks for x-group alone
missing_headers_GroupOnly(headers) ==
    {n \in {"x-group"} : n \notin DOMAIN headers /\ "X-Group" \notin DOMAIN headers}

\* lines 517-521
missing_headers(headers) ==
    {n \in {"x-group", "x-hospital"} :
        n \notin DOMAIN headers
        /\ (IF n = "x-group" THEN "X-Group" ELSE "X-Hospital") \notin DOMAIN headers}

\* lines 183-187, 213: the names of the tools compiled from a document, and
\* whether the loop raises
RECURSIVE openapi_to_tools(_)
openapi_to_tools(doc) ==
    IF doc = <<>> THEN [raised |-> FALSE, names |-> <<>>]
    ELSE LET e == Head(doc)
             rest == openapi_to_tools(Tail(doc))
         IN  IF e.item # "mapping" THEN [raised |-> TRUE, names |-> <<>>]
             ELSE IF Lower(e.key) \notin HttpVerbs THEN rest
             ELSE [raised |-> rest.raised, names |-> <<operation_id(e)>> \o rest.names]

BuiltinTools == <<"reload_openapi_spec", "set_x_group", "set_x_hospital",
                  "show_header_context", "clear_header_context", "run_empi_tests">>

(***************************************************************************)
(* fast_mcp_server.py: the tool server.  Every incoming list_tools or       *)
(* call_tool request runs as a task of its own; a task runs until it        *)
(* awaits (the spec fetch, the API request).                                *)
(***************************************************************************)
VARIABLES
    openapi_spec_cache,
    operation_map,
    USER_X_GROUP,
    USER_X_HOSPITAL,
    handlers,           \* per task slot: pc, the call served, the prepared request
    last_reply,         \* the reply written last to the client
    reloaded,           \* history: what became of the catalog a reload installed
    auto                \* AUTO_RUN_EMPI_TESTS and the tasks of _auto_run_and_print

\* `reloaded` is read by no action.
\*   reset      a reload has discarded a loaded catalog and no load has
\*              completed since
\*   older      the tasks that awaited their fetch when the reload that
\*              installed the present catalog began, and still do
\*   clobbered  one of them has since replaced that catalog
\*   origin     the runtime context path and the resolved URL that the fetch
\*              whose data is in the cache had assigned
\* the tasks asyncio.create_task(_auto_run_and_print(label)) created: pc is
\* "created" until the event loop runs the task, "running" while the test
\* script runs, then "printed" or "failed"
AutoTask(label) == [label |-> label, pc |-> "created", headers |-> EmptyArgs]
AutoOff == [AUTO_RUN_EMPI_TESTS |-> FALSE, tasks |-> <<>>]
AutoOn == [AUTO_RUN_EMPI_TESTS |-> TRUE, tasks |-> <<>>]
\* lines 541-547: main() fetched the document at startup and created the
\* task of the startup test run before serving
AutoStartup == [AUTO_RUN_EMPI_TESTS |-> TRUE, tasks |-> <<AutoTask("startup")>>]

NoOrigin == [runtime |-> <<>>, resolved |-> NoUrl]
NoReload == [reset |-> FALSE, older |-> {}, clobbered |-> FALSE, origin |-> NoOrigin]

Handlers == 1..MaxHandlers

NoMap == [tag |-> "none", map |-> EmptyMap]
MapOf(m) == [tag |-> "map", map |-> m]

NoCall == [kind |-> "", name |-> "", arguments |-> EmptyArgs]
ListTools == [kind |-> "list_tools", name |-> "", arguments |-> EmptyArgs]
CallTool(name, arguments) == [kind |-> "call_tool", name |-> name, arguments |-> arguments]
ReloadCall == CallTool("reload_openapi_spec", EmptyArgs)

NoReply == [kind |-> "", tools |-> <<>>, value |-> ""]
Reply(kind) == [kind |-> kind, tools |-> <<>>, value |-> ""]
NoRequest == [method |-> "", headers |-> EmptyArgs, sent |-> FALSE]

\* lines 58-93: the methods make_api_request has a branch for
Executes(method) == method \in {"GET", "POST", "PUT", "DELETE"}

\* A task slot.  Two fields record history and are read by no action:
\*   saw_reset  the task found the catalog unloaded because a reload had
\*              discarded it and not yet installed another
\*   older      (of a reload task) the tasks that awaited their fetch when
\*              the reload began and still do
NoFetched == [data |-> NoData, runtime |-> <<>>, resolved |-> NoUrl]
IdleTask == [pc |-> "idle", call |-> NoCall, request |-> NoRequest, saw_reset |-> FALSE,
             older |-> {}, fetched |-> NoFetched]

IsReload(call) == call.kind = "call_tool" /\ call.name = "reload_openapi_spec"

\* lines 307-366: list_tools after ensure_openapi_loaded
list_tools_reply(cache) ==
    IF cache.tag # "doc" THEN [kind |-> "error_tool", tools |-> <<"error">>, value |-> ""]
    ELSE IF openapi_to_tools(cache.doc).raised THEN Reply("raised")
    ELSE [kind |-> "tools", tools |-> openapi_to_tools(cache.doc).names \o BuiltinTools,
          value |-> ""]

\* lines 497-527: an operation call after ensure_openapi_loaded, up to the
\* API request: the reply when it ends here, else the request it sends
operation_call(call, map, user_group, user_hospital, default_group, default_hospital) ==
    IF map.map = EmptyMap \/ call.name \notin DOMAIN map.map
    THEN [reply |-> Reply("unknown_tool"), request |-> NoRequest]
    ELSE LET op == map.map[call.name]
             built == operation_headers(op.details, call.arguments, user_group,
                                        user_hospital, default_group, default_hospital)
             headers == ensure_header(
                            ensure_header(built, "x-group", "X-Group", user_group,
                                          default_group),
                            "x-hospital", "X-Hospital", user_hospital, default_hospital)
         IN  IF server_build_raises(op.details, call.arguments)
             THEN [reply |-> Reply("build_error"), request |-> NoRequest]
             ELSE IF missing_headers(headers) # {}
             THEN [reply |-> Reply("missing_headers"), request |-> NoRequest]
             ELSE [reply |-> NoReply,
                   request |-> [method |-> op.method, headers |-> headers,
                                sent |-> Executes(op.method)]]

\* what a task does once ensure_openapi_loaded has returned, up to its next
\* await or its reply
after_loaded(call, cache, map, user_group, user_hospital, default_group, default_hospital) ==
    IF call.kind = "list_tools"
    THEN [reply |-> list_tools_reply(cache), request |-> NoRequest]
    ELSE IF IsReload(call)
    THEN [reply |-> Reply(IF cache.tag # "doc" THEN "reload_failed" ELSE "reloaded"),
          request |-> NoRequest]
    ELSE operation_call(call, map, user_group, user_hospital, default_group, default_hospital)

\* an exception of ensure_openapi_loaded leaves list_tools; call_tool's
\* outer handler (lines 532-533) turns it into a reply
after_raise(call) ==
    [reply |-> Reply(IF call.kind = "list_tools" THEN "raised" ELSE "exception"),
     request |-> NoRequest]

\* lines 230-240: the map ensure_openapi_loaded builds for the fetched data
installed_map(old, data) ==
    IF data.tag = "error" THEN [raised |-> FALSE, map |-> EmptyMap]
    ELSE build_catalog(data.doc)

\* fetch_openapi_spec as one function of the responses of its candidates
RECURSIVE fetch_openapi_spec(_, _, _, _, _, _, _)
fetch_openapi_spec(cands, responses, i, last_error, full_url, runtime, resolved) ==
    IF i > Len(cands)
    THEN [data |-> all_failed(last_error), runtime |-> runtime, resolved |-> resolved]
    ELSE LET t == try_candidate(cands[i], responses[i], last_error, full_url, runtime, resolved)
         IN  IF t.returns
             THEN [data |-> t.data, runtime |-> t.runtime, resolved |-> t.resolved]
             ELSE fetch_openapi_spec(cands, responses, i + 1, t.last_error, full_url,
                                     t.runtime, t.resolved)

ServerBoot(envs) ==
    /\ env \in envs
    /\ CONTEXT_PATH_RUNTIME = env.CONTEXT_PATH
    /\ RESOLVED_OPENAPI_URL = NoUrl
    /\ openapi_spec_cache = NoData
    /\ operation_map = NoMap
    /\ USER_X_GROUP = NoValue
    /\ USER_X_HOSPITAL = NoValue
    /\ handlers = [h \in Handlers |-> IdleTask]
    /\ last_reply = NoReply
    /\ reloaded = NoReload

\* the server with AUTO_RUN_EMPI_TESTS switched off
ServerStart(envs) == ServerBoot(envs) /\ auto = AutoOff

\* the slot of task h after the task went on with `next` (a reply, or a request sent)
Proceed(h, call, next) ==
    IF next.request = NoRequest THEN IdleTask
    ELSE [pc |-> "requesting", call |-> call, request |-> next.request,
          saw_reset |-> FALSE, older |-> {}, fetched |-> NoFetched]

Loading == {h \in Handlers : handlers[h].pc \in {"loading", "closing"}}

Strip_Identity(v) == v

\* str.strip() on the values the client passes
Strip(v) == CASE v = " 5 " -> "5" [] v = "9 " -> "9" [] v = "  " -> "" [] OTHER -> v

\* dict.get(key) with None as NoArg
NoArg == "<none>"
Get(arguments, key) == IF key \in DOMAIN arguments THEN arguments[key] ELSE NoArg

\* lines 438-473: the four header tools.  raw is read under the underscore
\* key and, when that is absent, under the hyphen key
set_header(arguments, underscore, hyphen, old, kind) ==
    LET raw == IF Get(arguments, underscore) # NoArg THEN Get(arguments, underscore)
               ELSE Get(arguments, hyphen)
    IN  IF raw = NoArg THEN [reply |-> Reply("missing_argument"), value |-> old]
        ELSE IF Strip(raw) = "" THEN [reply |-> Reply("empty_value"), value |-> old]
        ELSE [reply |-> [kind |-> kind, tools |-> <<>>, value |-> Strip(raw)],
              value |-> Strip(raw)]

IsHeaderTool(call) ==
    /\ call.kind = "call_tool"
    /\ call.name \in {"set_x_group", "set_x_hospital", "show_header_context",
                      "clear_header_context"}

\* lines 462-468: the resolved values show_header_context reports
shown(user_group, user_hospital, default_group, default_hospital) ==
    [kind |-> "shown", tools |-> <<>>,
     value |-> (IF user_group # NoValue THEN user_group
                ELSE IF default_group # NoValue THEN default_group
                ELSE "<unset>")
               \o "/" \o
               (IF user_hospital # NoValue THEN user_hospital
                ELSE IF default_hospital # NoValue THEN default_hospital
                ELSE "<unset>")]

header_tool_SetClearsOther(call, user_group, user_hospital, default_group, default_hospital) ==
    CASE call.name = "set_x_group" ->
            [reply |-> set_header(call.arguments, "x_group", "x-group", user_group,
                                  "x_group_set").reply,
             user_group |-> set_header(call.arguments, "x_group", "x-group", user_group,
                                       "x_group_set").value,
             user_hospital |-> NoValue]
      [] call.name = "set_x_hospital" ->
            [reply |-> set_header(call.arguments, "x_hospital", "x-hospital",
                                  user_hospital, "x_hospital_set").reply,
             user_group |-> user_group,
             user_hospital |-> set_header(call.arguments, "x_hospital", "x-hospital",
                                          user_hospital, "x_hospital_set").value]
      [] call.name = "show_header_context" ->
            [reply |-> shown(user_group, user_hospital, default_group, default_hospital),
             user_group |-> user_group, user_hospital |-> user_hospital]
      [] call.name = "clear_header_context" ->
            [reply |-> Reply("cleared"), user_group |-> NoValue, user_hospital |-> NoValue]

header_tool(call, user_group, user_hospital, default_group, default_hospital) ==
    CASE call.name = "set_x_group" ->
            [reply |-> set_header(call.arguments, "x_group", "x-group", user_group,
                                  "x_group_set").reply,
             user_group |-> set_header(call.arguments, "x_group", "x-group", user_group,
                                       "x_group_set").value,
             user_hospital |-> user_hospital]
      [] call.name = "set_x_hospital" ->
            [reply |-> set_header(call.arguments, "x_hospital", "x-hospital",
                                  user_hospital, "x_hospital_set").reply,
             user_group |-> user_group,
             user_hospital |-> set_header(call.arguments, "x_hospital", "x-hospital",
                                          user_hospital, "x_hospital_set").value]
      [] call.name = "show_header_context" ->
            [reply |-> shown(user_group, user_hospital, default_group, default_hospital),
             user_group |-> user_group, user_hospital |-> user_hospital]
      [] call.name = "clear_header_context" ->
            [reply |-> Reply("cleared"), user_group |-> NoValue, user_hospital |-> NoValue]

\* a header tool runs from its call to its reply without suspending
HeaderTool(call) ==
    LET r == header_tool(call, USER_X_GROUP, USER_X_HOSPITAL, env.DEFAULT_X_GROUP,
                         env.DEFAULT_X_HOSPITAL)
    IN  /\ IsHeaderTool(call)
        /\ USER_X_GROUP' = r.user_group
        /\ USER_X_HOSPITAL' = r.user_hospital
        /\ last_reply' = r.reply
        /\ UNCHANGED <<env, CONTEXT_PATH_RUNTIME, RESOLVED_OPENAPI_URL, openapi_spec_cache,
                       operation_map, handlers, reloaded, auto>>

\* A call that is no header tool: reload_openapi_spec first resets both
\* globals (lines 475-476); then ensure_openapi_loaded returns at once when
\* both are set, else awaits the fetch
LoadAndServe(h, call) ==
    /\ LET cache == IF IsReload(call) THEN NoData ELSE openapi_spec_cache
           map == IF IsReload(call) THEN NoMap ELSE operation_map
           next == after_loaded(call, cache, map, USER_X_GROUP, USER_X_HOSPITAL,
                                env.DEFAULT_X_GROUP, env.DEFAULT_X_HOSPITAL)
       IN  /\ openapi_spec_cache' = cache
           /\ operation_map' = map
           /\ IF cache.tag # "none" /\ map.tag # "none"
              THEN /\ handlers' = [handlers EXCEPT ![h] = Proceed(h, call, next)]
                   /\ last_reply' = IF next.request = NoRequest THEN next.reply ELSE last_reply
              ELSE /\ handlers' = [handlers EXCEPT ![h] =
                          [pc |-> "loading", call |-> call, request |-> NoRequest,
                           saw_reset |-> ~IsReload(call) /\ reloaded.reset,
                           older |-> IF IsReload(call) THEN Loading ELSE {},
                           fetched |-> NoFetched]]
                   /\ last_reply' = last_reply
    /\ reloaded' = IF IsReload(call)
                   THEN [reset |-> reloaded.reset \/ openapi_spec_cache.tag # "none",
                         older |-> {}, clobbered |-> FALSE, origin |-> reloaded.origin]
                   ELSE reloaded
    /\ UNCHANGED <<env, CONTEXT_PATH_RUNTIME, RESOLVED_OPENAPI_URL, USER_X_GROUP,
                   USER_X_HOSPITAL, auto>>

IsTestRun(call) == call.kind = "call_tool" /\ call.name = "run_empi_tests"

\* python's `a or b` on optional strings
Or(a, b) == IF a \notin {NoArg, ""} THEN a ELSE b

\* lines 392-398: the header values on the command line of the test run
test_headers(x_group, x_hospital, user_group, user_hospital, default_group, default_hospital) ==
    LET xg == IF x_group # NoArg THEN x_group ELSE Or(user_group, default_group)
        xh == IF x_hospital # NoArg THEN x_hospital ELSE Or(user_hospital, default_hospital)
    IN  [k \in (IF xg \notin {NoArg, ""} THEN {"--x-group"} ELSE {})
              \cup (IF xh \notin {NoArg, ""} THEN {"--x-hospital"} ELSE {})
         |-> IF k = "--x-group" THEN xg ELSE xh]

\* lines 485-494: run_empi_tests starts the test script as a subprocess and
\* awaits its end
StartTests(h, call) ==
    /\ IsTestRun(call)
    /\ handlers' = [handlers EXCEPT ![h] =
          [pc |-> "testing", call |-> call,
           request |-> [method |-> "subprocess",
                        headers |-> test_headers(
                            Or(Get(call.arguments, "x_group"), Get(call.arguments, "x-group")),
                            Or(Get(call.arguments, "x_hospital"),
                               Get(call.arguments, "x-hospital")),
                            USER_X_GROUP, USER_X_HOSPITAL,
                            env.DEFAULT_X_GROUP, env.DEFAULT_X_HOSPITAL),
                        sent |-> FALSE],
           saw_reset |-> FALSE, older |-> {}, fetched |-> NoFetched]]
    /\ UNCHANGED <<env, CONTEXT_PATH_RUNTIME, RESOLVED_OPENAPI_URL, openapi_spec_cache,
                   operation_map, USER_X_GROUP, USER_X_HOSPITAL, last_reply, reloaded, auto>>

\* call_tool that loads the catalog before it looks at the tool name
Receive_LoadsFirst(h, call) ==
    /\ handlers[h].pc = "idle"
    /\ IF IsTestRun(call) THEN StartTests(h, call)
       ELSE LoadAndServe(h, call)

\* A request arrives and its task runs to its first await or to its reply: a
\* header tool replies at once, run_empi_tests starts the test run, every
\* other call goes through ensure_openapi_loaded
Receive(h, call) ==
    /\ handlers[h].pc = "idle"
    /\ IF IsHeaderTool(call) THEN HeaderTool(call)
       ELSE IF IsTestRun(call) THEN StartTests(h, call)
       ELSE LoadAndServe(h, call)

\* Lines 229-240 and the rest of the task up to its next await, for the
\* data its fetch returned.  A reload that succeeded creates the task of the
\* background test run (lines 481-482) and replies without awaiting it.
InstallFetched(h, data, origin) ==
    LET built == installed_map(operation_map, data)
        call == handlers[h].call
        next == IF built.raised THEN after_raise(call)
                ELSE after_loaded(call, data, MapOf(built.map), USER_X_GROUP,
                                  USER_X_HOSPITAL, env.DEFAULT_X_GROUP, env.DEFAULT_X_HOSPITAL)
    IN  /\ openapi_spec_cache' = data
        /\ operation_map' = MapOf(built.map)
        /\ handlers' = [k \in Handlers |->
                           IF k = h THEN Proceed(h, call, next)
                           ELSE [handlers[k] EXCEPT !.older = @ \ {h}]]
        /\ last_reply' = IF next.request = NoRequest THEN next.reply ELSE last_reply
        /\ reloaded' = IF IsReload(call)
                       THEN [reset |-> FALSE, older |-> handlers[h].older,
                             clobbered |-> FALSE, origin |-> origin]
                       ELSE [reset |-> FALSE, older |-> {},
                             clobbered |-> reloaded.clobbered \/ h \in reloaded.older,
                             origin |-> origin]
        /\ auto' = IF IsReload(call) /\ next.reply.kind = "reloaded"
                      /\ auto.AUTO_RUN_EMPI_TESTS
                   THEN [auto EXCEPT !.tasks = Append(@, AutoTask("reload"))]
                   ELSE auto
        /\ UNCHANGED <<env, USER_X_GROUP, USER_X_HOSPITAL>>

\* The fetch task h awaits returned f, when leaving fetch_openapi_spec (the
\* exits of its two `async with` blocks) suspends nowhere: the assignments
\* of lines 152-161 and those of ensure_openapi_loaded are one step.
FetchReturned(h, f) ==
    /\ CONTEXT_PATH_RUNTIME' = f.runtime
    /\ RESOLVED_OPENAPI_URL' = f.resolved
    /\ InstallFetched(h, f.data, [runtime |-> f.runtime, resolved |-> f.resolved])

\* The same when closing the response and the session suspends (the exits
\* of `async with session.get(cand)` and `async with aiohttp.ClientSession()`,
\* lines 139-164): the fetch of task h assigns the two globals and the task
\* waits for the session to close ...
FetchAssigns(h, f) ==
    /\ handlers[h].pc = "loading"
    /\ CONTEXT_PATH_RUNTIME' = f.runtime
    /\ RESOLVED_OPENAPI_URL' = f.resolved
    /\ handlers' = [handlers EXCEPT ![h].pc = "closing", ![h].fetched = f]
    /\ UNCHANGED <<env, openapi_spec_cache, operation_map, USER_X_GROUP, USER_X_HOSPITAL,
                   last_reply, reloaded, auto>>

\* ... and is resumed: fetch_openapi_spec returns to ensure_openapi_loaded
FetchCloses(h) ==
    /\ handlers[h].pc = "closing"
    /\ InstallFetched(h, handlers[h].fetched.data,
                      [runtime |-> handlers[h].fetched.runtime,
                       resolved |-> handlers[h].fetched.resolved])
    /\ UNCHANGED <<CONTEXT_PATH_RUNTIME, RESOLVED_OPENAPI_URL>>

\* the value fetch_openapi_spec returns when candidate w answers with
\* document d and the candidates before it with 404
Fetched(w, d) ==
    fetch_openapi_spec(Candidates,
                       [i \in 1..Len(Candidates) |-> IF i < w THEN Failure("404") ELSE Served(d)],
                       1, NoError, env.OPENAPI_FULL_URL, CONTEXT_PATH_RUNTIME,
                       RESOLVED_OPENAPI_URL)

\* candidate w answers with document d, the candidates before it with 404
FetchSucceeds(h, w, d) ==
    /\ handlers[h].pc = "loading"
    /\ w \in 1..Len(Candidates)
    /\ FetchReturned(h, fetch_openapi_spec(Candidates,
                        [i \in 1..Len(Candidates) |-> IF i < w THEN Failure("404") ELSE Served(d)],
                        1, NoError, env.OPENAPI_FULL_URL, CONTEXT_PATH_RUNTIME,
                        RESOLVED_OPENAPI_URL))

\* no candidate answers with a document; the last one fails with `kind`
FetchFails(h, kind) ==
    /\ handlers[h].pc = "loading"
    /\ FetchReturned(h, fetch_openapi_spec(Candidates,
                        [i \in 1..Len(Candidates) |->
                            IF i < Len(Candidates) THEN Failure("404") ELSE Failure(kind)],
                        1, NoError, env.OPENAPI_FULL_URL, CONTEXT_PATH_RUNTIME,
                        RESOLVED_OPENAPI_URL))

\* what the target API does with a request: a status, or no response at all
ApiResponses == {"200", "204", "404", "500", "transport"}

\* lines 56-108: the value make_api_request returns.  GET, PUT and DELETE test
\* for 404 before raise_for_status, POST does not; raise_for_status raises a
\* ClientError, caught at line 105; a method without a branch leaves the
\* function at its end, which returns None
make_api_request(method, resp) ==
    IF ~Executes(method) THEN "none"
    ELSE IF resp = "transport" THEN "api_request_failed"
    ELSE IF resp = "404" /\ method # "POST" THEN "not_found"
    ELSE IF resp \in {"404", "500"} THEN "api_request_failed"
    ELSE IF resp = "204" THEN "no_content"
    ELSE "json"

\* lines 528-533: the reply for the value make_api_request returned; the test
\* `"error" in result` raises on None and the outer handler replies
api_reply(result) ==
    IF result = "none" THEN Reply("exception")
    ELSE IF result \in {"not_found", "api_request_failed"}
    THEN [kind |-> "error", tools |-> <<>>, value |-> result]
    ELSE [kind |-> "result", tools |-> <<>>, value |-> result]

\* the API answered the request of task h: make_api_request returns and the
\* task replies
ApiResponse(h, resp) ==
    /\ handlers[h].pc = "requesting"
    /\ handlers[h].request.sent
    /\ handlers' = [handlers EXCEPT ![h] = IdleTask]
    /\ last_reply' = api_reply(make_api_request(handlers[h].request.method, resp))
    /\ UNCHANGED <<env, CONTEXT_PATH_RUNTIME, RESOLVED_OPENAPI_URL, openapi_spec_cache,
                   operation_map, USER_X_GROUP, USER_X_HOSPITAL, reloaded, auto>>

\* make_api_request had no branch for the method of task h: it sent nothing
\* and returns
NoApiRequest(h) ==
    /\ handlers[h].pc = "requesting"
    /\ ~handlers[h].request.sent
    /\ handlers' = [handlers EXCEPT ![h] = IdleTask]
    /\ last_reply' = api_reply(make_api_request(handlers[h].request.method, "200"))
    /\ UNCHANGED <<env, CONTEXT_PATH_RUNTIME, RESOLVED_OPENAPI_URL, openapi_spec_cache,
                   operation_map, USER_X_GROUP, USER_X_HOSPITAL, reloaded, auto>>

TestRunEnds_ClearsOverrides(h) ==
    /\ handlers[h].pc = "testing"
    /\ handlers' = [handlers EXCEPT ![h] = IdleTask]
    /\ last_reply' = Reply("test_output")
    /\ USER_X_GROUP' = NoValue
    /\ USER_X_HOSPITAL' = NoValue
    /\ UNCHANGED <<env, CONTEXT_PATH_RUNTIME, RESOLVED_OPENAPI_URL, openapi_spec_cache,
                   operation_map, reloaded, auto>>

\* the subprocess of task h ended: _execute_empi_tests returns its output
TestRunEnds(h) ==
    /\ handlers[h].pc = "testing"
    /\ handlers' = [handlers EXCEPT ![h] = IdleTask]
    /\ last_reply' = Reply("test_output")
    /\ UNCHANGED <<env, CONTEXT_PATH_RUNTIME, RESOLVED_OPENAPI_URL, openapi_spec_cache,
                   operation_map, USER_X_GROUP, USER_X_HOSPITAL, reloaded, auto>>

\* The event loop runs the task of a background test run, the created
\* tasks in their order: lines 422-426 and _execute_empi_tests up to the
\* await of the subprocess, whose command line gets the header values of
\* this moment (lines 392-400)
AutoRunStarts(i) ==
    /\ auto.tasks[i].pc = "created"
    /\ \A j \in 1..(i - 1) : auto.tasks[j].pc # "created"
    /\ auto' = [auto EXCEPT !.tasks[i].pc = "running",
                            !.tasks[i].headers =
                                test_headers(NoArg, NoArg, USER_X_GROUP, USER_X_HOSPITAL,
                                             env.DEFAULT_X_GROUP, env.DEFAULT_X_HOSPITAL)]
    /\ UNCHANGED <<env, CONTEXT_PATH_RUNTIME, RESOLVED_OPENAPI_URL, openapi_spec_cache,
                   operation_map, USER_X_GROUP, USER_X_HOSPITAL, handlers, last_reply,
                   reloaded>>

\* the background test run whose failure discards the catalog
AutoRunEnds_ResetsCatalog(i, ok) ==
    /\ auto.tasks[i].pc = "running"
    /\ auto' = [auto EXCEPT !.tasks[i].pc = IF ok THEN "printed" ELSE "failed"]
    /\ openapi_spec_cache' = IF ok THEN openapi_spec_cache ELSE NoData
    /\ operation_map' = IF ok THEN operation_map ELSE NoMap
    /\ UNCHANGED <<env, CONTEXT_PATH_RUNTIME, RESOLVED_OPENAPI_URL, USER_X_GROUP,
                   USER_X_HOSPITAL, handlers, last_reply, reloaded>>

\* lines 427-430: the test run of task i ended; its output is printed, or
\* the exception it raised is caught and printed
AutoRunEnds(i, ok) ==
    /\ auto.tasks[i].pc = "running"
    /\ auto' = [auto EXCEPT !.tasks[i].pc = IF ok THEN "printed" ELSE "failed"]
    /\ UNCHANGED <<env, CONTEXT_PATH_RUNTIME, RESOLVED_OPENAPI_URL, openapi_spec_cache,
                   operation_map, USER_X_GROUP, USER_X_HOSPITAL, handlers, last_reply,
                   reloaded>>

\* The target API as the Spec Locator sees it: its answer at every candidate
\* URL, which no load changes.
VARIABLE target     \* at: URL -> answer; history: loads, the loads completed so far, and
                    \* once, what the first of them left behind (read by no action)

NoSnapshot == [map |-> NoMap, cache |-> NoData, runtime |-> <<>>, resolved |-> NoUrl]
NoTarget == [at |-> <<>>, loads |-> 0, once |-> NoSnapshot]

\* the fetch task h awaits returns what the target answers
LoadEnds(h) ==
    /\ handlers[h].pc = "loading"
    /\ FetchReturned(h, fetch_openapi_spec(Candidates,
                        [i \in 1..Len(Candidates) |-> target.at[Candidates[i]]],
                        1, NoError, env.OPENAPI_FULL_URL, CONTEXT_PATH_RUNTIME,
                        RESOLVED_OPENAPI_URL))
    /\ target' = [target EXCEPT
                    !.loads = @ + 1,
                    !.once = IF target.loads = 0
                             THEN [map |-> operation_map', cache |-> openapi_spec_cache',
                                   runtime |-> CONTEXT_PATH_RUNTIME',
                                   resolved |-> RESOLVED_OPENAPI_URL']
                             ELSE @]

\* the API answers served while loads and reloads are studied
ApiOutcomes == {"200", "500"}

\* the calls a client sends while the catalog is loaded and reloaded, and the
\* environments the server is started in for them
LoadEnvs ==
    {[CONTEXT_PATH |-> <<"csi">>, OPENAPI_FULL_URL |-> NoUrl, DEFAULT_X_GROUP |-> "7",
      DEFAULT_X_HOSPITAL |-> "7"],
     [CONTEXT_PATH |-> <<>>, OPENAPI_FULL_URL |-> NoUrl, DEFAULT_X_GROUP |-> NoValue,
      DEFAULT_X_HOSPITAL |-> NoValue]}
LoadCalls == {ListTools, ReloadCall, CallTool("listBooks", EmptyArgs)}

(***************************************************************************)
(* fast_mcp_server.py: the header tools and request synthesis, one call    *)
(* after the other on a loaded catalog.                                    *)
(***************************************************************************)
VARIABLE synth   \* the last operation call synthesized: its inputs and its outcome

SynthIdle == [call |-> NoCall, user_group |-> NoValue, user_hospital |-> NoValue,
              built |-> [raised |-> FALSE, headers |-> EmptyArgs],
              result |-> [reply |-> NoReply, request |-> NoRequest]]

\* the argument mappings the client sends
Args1(k, v) == [x \in {k} |-> v]
Args2(k1, v1, k2, v2) == [x \in {k1, k2} |-> IF x = k1 THEN v1 ELSE v2]

HeaderCalls ==
    {CallTool("set_x_group", a) :
        a \in {EmptyArgs, Args1("x_group", "5"), Args1("x-group", " 5 "),
               Args1("x_group", "  "), Args2("x_group", "", "x-group", "5")}}
    \cup {CallTool("set_x_hospital", a) :
        a \in {EmptyArgs, Args1("x_hospital", "9 "), Args1("x-hospital", "")}}
    \cup {CallTool("show_header_context", EmptyArgs),
          CallTool("clear_header_context", EmptyArgs)}

OperationCalls ==
    {CallTool("report", a) :
        a \in {EmptyArgs, Args1("x-group", "3"), Args1("X-Group", "3"),
               Args1("X_Group", "3"), Args1("x-group", ""),
               Args2("x-group", "3", "x_hospital", "4"),
               Args2("X-Group", "3", "x_group", "8"), Args2("x-group", "1", "X_Group", "8"),
               Args2("X-HOSPITAL", "4", "X_Trace", "t"), Args1("x-trace", "t")}}
    \cup {CallTool("get__books_{id}", a) : a \in {EmptyArgs, Args1("id", "1")}}
    \cup {CallTool("listBooks", EmptyArgs)}

\* the catalog of DocHeaders
HeadersCatalog == build_catalog(DocHeaders).map

\* lines 499-526 for an operation call on a loaded catalog
SynthesizeOn(map, call) ==
    /\ synth' = [call |-> call, user_group |-> USER_X_GROUP, user_hospital |-> USER_X_HOSPITAL,
                 built |-> build_request_from_operation(
                               map[call.name].details,
                               call.arguments, USER_X_GROUP, USER_X_HOSPITAL,
                               env.DEFAULT_X_GROUP, env.DEFAULT_X_HOSPITAL),
                 result |-> operation_call(call, MapOf(map),
                                           USER_X_GROUP, USER_X_HOSPITAL,
                                           env.DEFAULT_X_GROUP, env.DEFAULT_X_HOSPITAL)]
    /\ UNCHANGED <<env, CONTEXT_PATH_RUNTIME, RESOLVED_OPENAPI_URL, openapi_spec_cache,
                   operation_map, USER_X_GROUP, USER_X_HOSPITAL, handlers, last_reply,
                   reloaded, auto>>

\* on the catalog of DocHeaders
Synthesize(call) == SynthesizeOn(HeadersCatalog, call)

\* An operation that declares its group header in capitals, and the calls
\* sent to it
DetailsCapitals ==
    [parameters |-> << Param("X-GROUP", "header", TRUE, "string"),
                       Param("x-hospital", "header", FALSE, "string") >>,
     requestBody |-> NoBody]
EAudit == Entry(<<"/", "audit">>, "get", <<"audit">>, DetailsCapitals)
CapitalsCatalog == build_catalog(<<EAudit, EReport>>).map
CapitalsCalls ==
    {CallTool("audit", a) :
        a \in {EmptyArgs, Args1("X-GROUP", "3"), Args1("x_group", "3"),
               Args2("X-GROUP", "3", "x-hospital", "4")}}
    \cup {CallTool("report", a) : a \in {EmptyArgs, Args1("x-group", "3")}}
    \cup {CallTool("set_x_group", Args1("x_group", "5")),
          CallTool("set_x_hospital", Args1("x_hospital", "9 ")),
          CallTool("clear_header_context", EmptyArgs)}

(***************************************************************************)
(* The specifications.                                                     *)
(***************************************************************************)
vars == <<plan, run, openapi, concurrency, filter_text, tasks, runner_pc, wstate, sem_value, sem_waiters, results,
          report, env, CONTEXT_PATH_RUNTIME, RESOLVED_OPENAPI_URL, fetch, target, catalog,
          openapi_spec_cache, operation_map, USER_X_GROUP, USER_X_HOSPITAL, handlers,
          last_reply, reloaded, auto, synth>>

serverVars == <<env, CONTEXT_PATH_RUNTIME, RESOLVED_OPENAPI_URL, openapi_spec_cache,
                operation_map, USER_X_GROUP, USER_X_HOSPITAL, handlers, last_reply,
                reloaded, auto>>

\* the parts a specification does not run stay as constructed
RunnerQuiet ==
    /\ plan = NoPlan
    /\ run = NoRun
    /\ openapi = <<>>
    /\ concurrency = 1
    /\ filter_text = NoFilter
    /\ tasks = <<>>
    /\ runner_pc = "returned"
    /\ wstate = <<>>
    /\ sem_value = 1
    /\ sem_waiters = <<>>
    /\ results = <<>>
    /\ report = NoReport
ServerQuiet ==
    /\ env = [CONTEXT_PATH |-> <<>>, OPENAPI_FULL_URL |-> NoUrl, DEFAULT_X_GROUP |-> NoValue,
              DEFAULT_X_HOSPITAL |-> NoValue]
    /\ CONTEXT_PATH_RUNTIME = <<>>
    /\ RESOLVED_OPENAPI_URL = NoUrl
    /\ openapi_spec_cache = NoData
    /\ operation_map = NoMap
    /\ USER_X_GROUP = NoValue
    /\ USER_X_HOSPITAL = NoValue
    /\ handlers = [h \in Handlers |-> IdleTask]
    /\ last_reply = NoReply
    /\ reloaded = NoReload
    /\ auto = AutoOff
CatalogQuiet == catalog = [doc |-> <<>>, done |-> 0, map |-> EmptyMap, pc |-> "built"]
FetchQuiet == fetch = FetchIdle /\ target = NoTarget
SynthQuiet == synth = SynthIdle

\* the tool server
Init == ServerStart(LoadEnvs) /\ FetchQuiet /\ CatalogQuiet /\ RunnerQuiet /\ SynthQuiet
Next ==
    \/ \E h \in Handlers, call \in LoadCalls :
          Receive(h, call) /\ UNCHANGED <<runnerVars, fetch, target, catalog, synth>>
    \/ \E h \in Handlers, w \in 1..Len(Candidates), d \in ServedDocs :
          FetchSucceeds(h, w, d) /\ UNCHANGED <<runnerVars, fetch, target, catalog, synth>>
    \/ \E h \in Handlers, kind \in {"404", "not_openapi"} :
          FetchFails(h, kind) /\ UNCHANGED <<runnerVars, fetch, target, catalog, synth>>
    \/ \E h \in Handlers, outcome \in ApiOutcomes :
          ApiResponse(h, outcome) /\ UNCHANGED <<runnerVars, fetch, target, catalog, synth>>
Spec == Init /\ [][Next]_vars

\* one run of test_all_endpoints
InitRunner == RunnerInit /\ plan = NoPlan /\ run = NoRun /\ ServerQuiet /\ FetchQuiet /\ CatalogQuiet /\ SynthQuiet
NextRunner ==
    \/ \E w \in DOMAIN wstate : WorkerStart(w) /\ UNCHANGED <<serverVars, fetch, target, catalog, synth, plan, run>>
    \/ \E w \in DOMAIN wstate : WorkerResume(w) /\ UNCHANGED <<serverVars, fetch, target, catalog, synth, plan, run>>
    \/ \E w \in DOMAIN wstate, code \in StatusCodes :
          WorkerResponse(w, code) /\ UNCHANGED <<serverVars, fetch, target, catalog, synth, plan, run>>
    \/ \E w \in DOMAIN wstate : WorkerRequestError(w) /\ UNCHANGED <<serverVars, fetch, target, catalog, synth, plan, run>>
    \/ Aggregate /\ UNCHANGED <<serverVars, fetch, target, catalog, synth, plan, run>>
SpecRunner == InitRunner /\ [][NextRunner]_vars

\* The same run when the event loop runs every task that is ready and every
\* HTTP request returns a response or an error.
SpecRunnerFair ==
    /\ InitRunner
    /\ [][NextRunner]_vars
    /\ WF_vars(\E w \in DOMAIN wstate :
                  WorkerStart(w) /\ UNCHANGED <<serverVars, fetch, target, catalog, synth, plan, run>>)
    /\ WF_vars(\E w \in DOMAIN wstate :
                  WorkerResume(w) /\ UNCHANGED <<serverVars, fetch, target, catalog, synth, plan, run>>)
    /\ WF_vars(\E w \in DOMAIN wstate :
                  /\ WorkerRequestError(w) \/ \E code \in StatusCodes : WorkerResponse(w, code)
                  /\ UNCHANGED <<serverVars, fetch, target, catalog, synth, plan, run>>)
    /\ WF_vars(Aggregate /\ UNCHANGED <<serverVars, fetch, target, catalog, synth, plan, run>>)

\* the documents the target API serves in the runs of the script
MainDocs == {<<>>, <<EListBooks, ECreateBook>>, <<EListBooks, EGetBook>>, DocBroken}

MainInit ==
    /\ run = [NoRun EXCEPT !.pc = "fetching"]
    /\ openapi \in MainDocs
    /\ concurrency \in 1..MaxConcurrency
    /\ filter_text \in FilterChoices
    /\ tasks = <<>>
    /\ runner_pc = "idle"
    /\ wstate = <<>>
    /\ sem_value = concurrency
    /\ sem_waiters = <<>>
    /\ results = <<>>
    /\ report = NoReport

\* the failed load taken for an unhandled error
MainLoadFails_ExitsOne ==
    /\ run.pc = "fetching"
    /\ run' = Exit(run, 1)
    /\ UNCHANGED <<openapi, concurrency, filter_text, tasks, runner_pc, wstate, sem_value,
                   sem_waiters, results, report>>

\* main_async, lines 432-435: fetch_openapi_spec returned an error mapping
MainLoadFails ==
    /\ run.pc = "fetching"
    /\ run' = Exit(run, 2)
    /\ UNCHANGED <<openapi, concurrency, filter_text, tasks, runner_pc, wstate, sem_value,
                   sem_waiters, results, report>>

\* lines 432-438: the document was loaded and test_all_endpoints is called;
\* when it raises while it builds the task list, main() exits with 1
MainLoaded ==
    /\ run.pc = "fetching"
    /\ LET built == build_tasks(openapi, filter_text)
       IN  /\ tasks' = built.tasks
           /\ runner_pc' = IF built.raised THEN "raised" ELSE "workers"
           /\ wstate' = [w \in 1..(IF built.raised THEN 0 ELSE Len(built.tasks)) |-> Idle]
           /\ run' = IF built.raised THEN Exit([run EXCEPT !.loaded = TRUE], 1)
                     ELSE [run EXCEPT !.loaded = TRUE, !.pc = "testing"]
    /\ UNCHANGED <<openapi, concurrency, filter_text, sem_value, sem_waiters, results, report>>

\* a step of the workers of test_all_endpoints
MainWorkers ==
    /\ run.pc = "testing"
    /\ \E w \in DOMAIN wstate :
          \/ WorkerStart(w)
          \/ WorkerResume(w)
          \/ \E code \in StatusCodes : WorkerResponse(w, code)
          \/ WorkerRequestError(w)
    /\ UNCHANGED run

\* test_all_endpoints returns the report to main_async
MainReport ==
    /\ run.pc = "testing"
    /\ Aggregate
    /\ run' = [run EXCEPT !.pc = "opening"]

\* line 441: open(args.report, "w") creates or truncates the file, or raises
\* OSError, which main() turns into exit code 1
MainOpen(ok) ==
    /\ run.pc = "opening"
    /\ run' = IF ok THEN [run EXCEPT !.pc = "dumping", !.file = "partial"] ELSE Exit(run, 1)
    /\ UNCHANGED <<openapi, concurrency, filter_text, tasks, runner_pc, wstate, sem_value,
                   sem_waiters, results, report>>

\* line 442 and the end of the with block: the report is written out
MainDump ==
    /\ run.pc = "dumping"
    /\ run' = [run EXCEPT !.pc = "written", !.file = "complete", !.writes = run.writes + 1]
    /\ UNCHANGED <<openapi, concurrency, filter_text, tasks, runner_pc, wstate, sem_value,
                   sem_waiters, results, report>>

\* lines 445-448 with every run exiting with 0
MainFinish_AlwaysZero ==
    /\ run.pc = "written"
    /\ run' = Exit(run, 0)
    /\ UNCHANGED <<openapi, concurrency, filter_text, tasks, runner_pc, wstate, sem_value,
                   sem_waiters, results, report>>
\* lines 445-448: the summary is printed and the exit code follows `failed`
MainFinish ==
    /\ run.pc = "written"
    /\ run' = Exit(run, IF report.summary.failed # 0 THEN 1 ELSE 0)
    /\ UNCHANGED <<openapi, concurrency, filter_text, tasks, runner_pc, wstate, sem_value,
                   sem_waiters, results, report>>

\* lines 453-456: KeyboardInterrupt, wherever the run is
MainInterrupt ==
    /\ run.pc \notin {"off", "exited"}
    /\ run' = Exit([run EXCEPT !.interrupted = TRUE], 130)
    /\ UNCHANGED <<openapi, concurrency, filter_text, tasks, runner_pc, wstate, sem_value,
                   sem_waiters, results, report>>

InitMain ==
    MainInit /\ plan = NoPlan /\ ServerQuiet /\ FetchQuiet /\ CatalogQuiet /\ SynthQuiet
NextMain ==
    \/ MainLoadFails /\ UNCHANGED <<serverVars, fetch, target, catalog, synth, plan>>
    \/ MainLoaded /\ UNCHANGED <<serverVars, fetch, target, catalog, synth, plan>>
    \/ MainWorkers /\ UNCHANGED <<serverVars, fetch, target, catalog, synth, plan>>
    \/ MainReport /\ UNCHANGED <<serverVars, fetch, target, catalog, synth, plan>>
    \/ \E ok \in BOOLEAN : MainOpen(ok) /\ UNCHANGED <<serverVars, fetch, target, catalog, synth, plan>>
    \/ MainDump /\ UNCHANGED <<serverVars, fetch, target, catalog, synth, plan>>
    \/ MainFinish /\ UNCHANGED <<serverVars, fetch, target, catalog, synth, plan>>
    \/ MainInterrupt /\ UNCHANGED <<serverVars, fetch, target, catalog, synth, plan>>
SpecMain == InitMain /\ [][NextMain]_vars

\* run_single_test's scenario arguments, for every operation of PlanDetails
InitPlan ==
    /\ PlanInit /\ run = NoRun /\ ServerQuiet /\ FetchQuiet /\ CatalogQuiet /\ SynthQuiet
    /\ openapi = <<>> /\ concurrency = 1 /\ filter_text = NoFilter /\ tasks = <<>>
    /\ runner_pc = "returned" /\ wstate = <<>> /\ sem_value = 1 /\ sem_waiters = <<>>
    /\ results = <<>> /\ report = NoReport
NextPlan ==
    \/ PlanPrepare /\ UNCHANGED <<serverVars, fetch, target, catalog, synth, run, openapi, concurrency,
                                  filter_text, tasks, runner_pc, wstate, sem_value, sem_waiters,
                                  results, report>>
    \/ PlanExecute /\ UNCHANGED <<serverVars, fetch, target, catalog, synth, run, openapi, concurrency,
                                  filter_text, tasks, runner_pc, wstate, sem_value, sem_waiters,
                                  results, report>>
SpecPlan == InitPlan /\ [][NextPlan]_vars

\* the same for operations whose parameter and property schemas list an
\* enumeration or give a format
SchemaParams ==
    {ParamOf("status", "query", TRUE, "string", <<"open", "closed">>, ""),
     ParamOf("since", "query", FALSE, "string", <<>>, "date-time"),
     ParamOf("day", "path", TRUE, "string", <<>>, "date"),
     ParamOf("level", "path", TRUE, "integer", <<"3", "5">>, ""),
     Param("q", "query", TRUE, "string"),
     Param("x-group", "header", TRUE, "string")}
SchemaBodies ==
    {NoBody,
     [present |-> TRUE, type |-> "object",
      properties |-> << PropOf("state", "string", <<"new", "old">>, ""),
                        PropOf("born", "string", <<>>, "date"),
                        PropOf("seen", "string", <<>>, "date-time"),
                        PropOf("rank", "integer", <<"2">>, "") >>,
      required |-> <<"state">>],
     [present |-> TRUE, type |-> "object",
      properties |-> << Prop("title", "string"), Prop("pages", "integer") >>,
      required |-> <<>>]}
SchemaDetails ==
    {[parameters |-> ps, requestBody |-> b] :
        ps \in SeqsUpTo(SchemaParams, MaxParams), b \in SchemaBodies}
InitArgs ==
    /\ \E d \in SchemaDetails : plan = [NoPlan EXCEPT !.pc = "called", !.details = d]
    /\ run = NoRun /\ ServerQuiet /\ FetchQuiet /\ CatalogQuiet /\ SynthQuiet
    /\ openapi = <<>> /\ concurrency = 1 /\ filter_text = NoFilter /\ tasks = <<>>
    /\ runner_pc = "returned" /\ wstate = <<>> /\ sem_value = 1 /\ sem_waiters = <<>>
    /\ results = <<>> /\ report = NoReport
SpecArgs == InitArgs /\ [][NextPlan]_vars

\* fetch_openapi_spec called again and again
InitFetch == ServerStart(EnvChoices) /\ FetchQuiet /\ CatalogQuiet /\ RunnerQuiet /\ SynthQuiet
NextFetch ==
    \/ FetchCall /\ UNCHANGED <<runnerVars, target, catalog, synth, openapi_spec_cache, operation_map,
                                USER_X_GROUP, USER_X_HOSPITAL, handlers, last_reply,
                                reloaded, auto>>
    \/ \E resp \in Responses :
          FetchResponse(resp) /\ UNCHANGED <<runnerVars, target, catalog, synth, openapi_spec_cache,
                                             operation_map, USER_X_GROUP, USER_X_HOSPITAL,
                                             handlers, last_reply, reloaded, auto>>
SpecFetch == InitFetch /\ [][NextFetch]_vars

\* the catalog loop on every document
InitCatalog == CatalogInit /\ ServerQuiet /\ FetchQuiet /\ RunnerQuiet /\ SynthQuiet
NextCatalog ==
    \/ CatalogStep /\ UNCHANGED <<runnerVars, serverVars, fetch, target, synth>>
    \/ CatalogFinish /\ UNCHANGED <<runnerVars, serverVars, fetch, target, synth>>
SpecCatalog == InitCatalog /\ [][NextCatalog]_vars

\* the header tools and request synthesis
InitSynth == ServerStart(EnvChoices) /\ FetchQuiet /\ CatalogQuiet /\ RunnerQuiet /\ SynthQuiet
NextSynth ==
    \/ \E call \in HeaderCalls :
          HeaderTool(call) /\ UNCHANGED <<runnerVars, fetch, target, catalog, synth>>
    \/ \E call \in OperationCalls :
          Synthesize(call) /\ UNCHANGED <<runnerVars, fetch, target, catalog>>
SpecSynth == InitSynth /\ [][NextSynth]_vars

\* the tool server with the header tools: concurrent calls on the document
\* with declared headers
ContextEnvs ==
    {[CONTEXT_PATH |-> <<>>, OPENAPI_FULL_URL |-> NoUrl, DEFAULT_X_GROUP |-> g,
      DEFAULT_X_HOSPITAL |-> g] : g \in {NoValue, "7"}}
ContextCalls ==
    {CallTool("set_x_group", Args1("x_group", "5")),
     CallTool("set_x_hospital", Args1("x_hospital", "9 ")),
     CallTool("clear_header_context", EmptyArgs),
     ReloadCall,
     CallTool("report", EmptyArgs)}
InitContext == ServerStart(ContextEnvs) /\ FetchQuiet /\ CatalogQuiet /\ RunnerQuiet /\ SynthQuiet
NextContext ==
    \/ \E h \in Handlers, call \in ContextCalls :
          Receive(h, call) /\ UNCHANGED <<runnerVars, fetch, target, catalog, synth>>
    \/ \E h \in Handlers :
          FetchSucceeds(h, 1, DocHeaders) /\ UNCHANGED <<runnerVars, fetch, target, catalog, synth>>
    \/ \E h \in Handlers :
          ApiResponse(h, "200") /\ UNCHANGED <<runnerVars, fetch, target, catalog, synth>>
SpecContext == InitContext /\ [][NextContext]_vars

\* the header tools and request synthesis on the operation that declares
\* X-GROUP
InitCapitals == ServerStart(ContextEnvs) /\ FetchQuiet /\ CatalogQuiet /\ RunnerQuiet /\ SynthQuiet
NextCapitals ==
    \/ \E call \in CapitalsCalls :
          HeaderTool(call) /\ UNCHANGED <<runnerVars, fetch, target, catalog, synth>>
    \/ \E call \in CapitalsCalls :
          /\ ~IsHeaderTool(call)
          /\ SynthesizeOn(CapitalsCatalog, call) /\ UNCHANGED <<runnerVars, fetch, target, catalog>>
SpecCapitals == InitCapitals /\ [][NextCapitals]_vars

\* The server under every kind of call: loads that succeed and fail,
\* list_tools, operation calls and test runs interleaved with the header tools.
FrameEnvs ==
    {[CONTEXT_PATH |-> <<>>, OPENAPI_FULL_URL |-> NoUrl, DEFAULT_X_GROUP |-> "7",
      DEFAULT_X_HOSPITAL |-> "7"]}
FrameCalls ==
    {CallTool("set_x_group", Args1("x_group", "5")),
     CallTool("clear_header_context", EmptyArgs),
     ListTools, ReloadCall,
     CallTool("report", EmptyArgs),
     CallTool("run_empi_tests", EmptyArgs)}
InitFrame == ServerStart(FrameEnvs) /\ FetchQuiet /\ CatalogQuiet /\ RunnerQuiet /\ SynthQuiet
NextFrame ==
    \/ \E h \in Handlers, call \in FrameCalls :
          Receive(h, call) /\ UNCHANGED <<runnerVars, fetch, target, catalog, synth>>
    \/ \E h \in Handlers :
          FetchSucceeds(h, 1, DocHeaders) /\ UNCHANGED <<runnerVars, fetch, target, catalog, synth>>
    \/ \E h \in Handlers :
          FetchFails(h, "500") /\ UNCHANGED <<runnerVars, fetch, target, catalog, synth>>
    \/ \E h \in Handlers :
          ApiResponse(h, "200") /\ UNCHANGED <<runnerVars, fetch, target, catalog, synth>>
    \/ \E h \in Handlers :
          TestRunEnds(h) /\ UNCHANGED <<runnerVars, fetch, target, catalog, synth>>
SpecFrame == InitFrame /\ [][NextFrame]_vars

\* Operation calls of every verb against a target API that answers with every
\* status.
InvokeCalls ==
    {CallTool("get__books_{id}", Args1("id", "1")),
     CallTool("get__books_{id}", EmptyArgs),
     CallTool("get__books_{id}", Args1("ID", "1")),
     CallTool("createBook", Args1("title", "t")),
     CallTool("deleteBook", EmptyArgs),
     CallTool("patchBook", EmptyArgs),
     CallTool("headBooks", EmptyArgs),
     CallTool("optionsBooks", EmptyArgs)}
InitInvoke == ServerStart(FrameEnvs) /\ FetchQuiet /\ CatalogQuiet /\ RunnerQuiet /\ SynthQuiet
NextInvoke ==
    \/ \E h \in Handlers, call \in InvokeCalls :
          Receive(h, call) /\ UNCHANGED <<runnerVars, fetch, target, catalog, synth>>
    \/ \E h \in Handlers :
          FetchSucceeds(h, 1, DocVerbs) /\ UNCHANGED <<runnerVars, fetch, target, catalog, synth>>
    \/ \E h \in Handlers, resp \in ApiResponses :
          ApiResponse(h, resp) /\ UNCHANGED <<runnerVars, fetch, target, catalog, synth>>
    \/ \E h \in Handlers :
          NoApiRequest(h) /\ UNCHANGED <<runnerVars, fetch, target, catalog, synth>>
SpecInvoke == InitInvoke /\ [][NextInvoke]_vars

\* loads and reloads against an unchanged target: at most MaxLoads of them
MaxLoads == 2
TargetAnswers == {Failure("404"), Served(DocBooks), Served(DocBroken)}
TargetEnvs ==
    {[CONTEXT_PATH |-> c, OPENAPI_FULL_URL |-> u, DEFAULT_X_GROUP |-> "7",
      DEFAULT_X_HOSPITAL |-> "7"] : c \in ContextPathChoices, u \in FullUrlChoices}
InitLoad ==
    /\ ServerStart(TargetEnvs)
    /\ fetch = FetchIdle /\ CatalogQuiet /\ RunnerQuiet /\ SynthQuiet
    /\ \E at \in [{Candidates[i] : i \in 1..Len(Candidates)} -> TargetAnswers] :
          target = [NoTarget EXCEPT !.at = at]
NextLoad ==
    \/ \E h \in Handlers, call \in {ReloadCall, ListTools} :
          /\ target.loads + Cardinality(Loading) < MaxLoads
          /\ Receive(h, call) /\ UNCHANGED <<runnerVars, fetch, target, catalog, synth>>
    \/ \E h \in Handlers : LoadEnds(h) /\ UNCHANGED <<runnerVars, fetch, catalog, synth>>
SpecLoad == InitLoad /\ [][NextLoad]_vars

\* reloads with AUTO_RUN_EMPI_TESTS on and off, after a startup fetch that
\* failed (no startup test run) or succeeded: at most MaxAutoRuns test runs
MaxAutoRuns == 2
AutoCalls == {ReloadCall, ListTools}
InitAuto ==
    /\ ServerBoot(FrameEnvs) /\ auto \in {AutoOff, AutoOn, AutoStartup}
    /\ FetchQuiet /\ CatalogQuiet /\ RunnerQuiet /\ SynthQuiet
NextAuto ==
    \/ \E h \in Handlers, call \in AutoCalls :
          /\ IsReload(call) =>
                Cardinality({k \in Handlers : IsReload(handlers[k].call)}) + Len(auto.tasks)
                    < MaxAutoRuns
          /\ Receive(h, call) /\ UNCHANGED <<runnerVars, fetch, target, catalog, synth>>
    \/ \E h \in Handlers, d \in {DocHeaders, DocBroken} :
          FetchSucceeds(h, 1, d) /\ UNCHANGED <<runnerVars, fetch, target, catalog, synth>>
    \/ \E h \in Handlers :
          FetchFails(h, "500") /\ UNCHANGED <<runnerVars, fetch, target, catalog, synth>>
    \/ \E i \in DOMAIN auto.tasks :
          AutoRunStarts(i) /\ UNCHANGED <<runnerVars, fetch, target, catalog, synth>>
    \/ \E i \in DOMAIN auto.tasks, ok \in BOOLEAN :
          AutoRunEnds(i, ok) /\ UNCHANGED <<runnerVars, fetch, target, catalog, synth>>
SpecAuto == InitAuto /\ [][NextAuto]_vars

\* run_empi_tests called with and without header arguments while the header
\* tools set and clear the overrides
TestCalls ==
    {CallTool("set_x_group", Args1("x_group", "5")),
     CallTool("set_x_hospital", Args1("x_hospital", "9 ")),
     CallTool("clear_header_context", EmptyArgs),
     CallTool("run_empi_tests", EmptyArgs),
     CallTool("run_empi_tests", Args1("x_group", "3")),
     CallTool("run_empi_tests", Args2("x_group", "", "x-group", "4")),
     CallTool("run_empi_tests", Args2("x-group", "", "x_hospital", "4"))}
InitTests == ServerStart(ContextEnvs) /\ FetchQuiet /\ CatalogQuiet /\ RunnerQuiet /\ SynthQuiet
NextTests ==
    \/ \E h \in Handlers, call \in TestCalls :
          Receive(h, call) /\ UNCHANGED <<runnerVars, fetch, target, catalog, synth>>
    \/ \E h \in Handlers :
          TestRunEnds(h) /\ UNCHANGED <<runnerVars, fetch, target, catalog, synth>>
SpecTests == InitTests /\ [][NextTests]_vars

\* the four header tools while the catalog is unloaded, loading, loaded and
\* failed to load
ToolCalls ==
    {CallTool("set_x_group", Args1("x_group", "5")),
     CallTool("set_x_hospital", Args1("x_hospital", "9 ")),
     CallTool("show_header_context", EmptyArgs),
     CallTool("clear_header_context", EmptyArgs),
     ListTools, ReloadCall}
InitTools == ServerStart(FrameEnvs) /\ FetchQuiet /\ CatalogQuiet /\ RunnerQuiet /\ SynthQuiet
NextTools ==
    \/ \E h \in Handlers, call \in ToolCalls :
          Receive(h, call) /\ UNCHANGED <<runnerVars, fetch, target, catalog, synth>>
    \/ \E h \in Handlers :
          FetchSucceeds(h, 1, DocHeaders) /\ UNCHANGED <<runnerVars, fetch, target, catalog, synth>>
    \/ \E h \in Handlers :
          FetchFails(h, "500") /\ UNCHANGED <<runnerVars, fetch, target, catalog, synth>>
SpecTools == InitTools /\ [][NextTools]_vars

\* Concurrent loads of list_tools and operation calls when leaving
\* fetch_openapi_spec suspends: the target serves a document at its first or
\* at its second candidate URL, or nowhere
RaceDocs == {DocBooks, DocSearch}
InitRace == ServerStart(LoadEnvs) /\ FetchQuiet /\ CatalogQuiet /\ RunnerQuiet /\ SynthQuiet
NextRace ==
    \/ \E h \in Handlers, call \in {ListTools, CallTool("listBooks", EmptyArgs)} :
          Receive(h, call) /\ UNCHANGED <<runnerVars, fetch, target, catalog, synth>>
    \/ \E h \in Handlers, w \in {1, 2, Len(Candidates) + 1}, d \in RaceDocs :
          FetchAssigns(h, Fetched(w, d)) /\ UNCHANGED <<runnerVars, fetch, target, catalog, synth>>
    \/ \E h \in Handlers :
          FetchCloses(h) /\ UNCHANGED <<runnerVars, fetch, target, catalog, synth>>
    \/ \E h \in Handlers :
          ApiResponse(h, "200") /\ UNCHANGED <<runnerVars, fetch, target, catalog, synth>>
SpecRace == InitRace /\ [][NextRace]_vars

\* A document with operations whose operationId is the name of a built-in
\* tool, next to one whose id is its own
EShowContext ==
    Entry(<<"/", "context">>, "get", <<"show", "_", "header", "_", "context">>, DetailsList)
EReloadSpec ==
    Entry(<<"/", "spec">>, "post", <<"reload", "_", "openapi", "_", "spec">>, DetailsList)
ERunTests ==
    Entry(<<"/", "tests">>, "post", <<"run", "_", "empi", "_", "tests">>, DetailsList)
DocShadow == <<EListBooks, EShowContext, EReloadSpec, ERunTests>>
ShadowCalls ==
    {ListTools,
     CallTool("listBooks", EmptyArgs),
     CallTool("show_header_context", EmptyArgs),
     CallTool("reload_openapi_spec", EmptyArgs),
     CallTool("run_empi_tests", EmptyArgs)}
InitShadow == ServerStart(FrameEnvs) /\ FetchQuiet /\ CatalogQuiet /\ RunnerQuiet /\ SynthQuiet
NextShadow ==
    \/ \E h \in Handlers, call \in ShadowCalls :
          Receive(h, call) /\ UNCHANGED <<runnerVars, fetch, target, catalog, synth>>
    \/ \E h \in Handlers :
          FetchSucceeds(h, 1, DocShadow) /\ UNCHANGED <<runnerVars, fetch, target, catalog, synth>>
    \/ \E h \in Handlers :
          ApiResponse(h, "200") /\ UNCHANGED <<runnerVars, fetch, target, catalog, synth>>
    \/ \E h \in Handlers :
          TestRunEnds(h) /\ UNCHANGED <<runnerVars, fetch, target, catalog, synth>>
SpecShadow == InitShadow /\ [][NextShadow]_vars

(***************************************************************************)
(* Properties of the test runner (SpecRunner).                             *)
(***************************************************************************)
\* the workers that hold a permit of the semaphore and have not yet left
\* `async with sem`
Admitted == {w \in DOMAIN wstate : wstate[w].pc \in {"woken", "running"}}

\* C1: during test_all_endpoints with ceiling N >= 1, the number of workers
\* that have been admitted and have not finished their scenario sequence is
\* at most N in every reachable state.
C1_ConcurrencyBound ==
    /\ concurrency >= 1
    /\ Cardinality(Admitted) <= concurrency

\* a worker is kept waiting while as many workers as the ceiling allows have
\* a request in flight
C1_Witness ==
    /\ Len(tasks) > concurrency
    /\ Cardinality({w \in DOMAIN wstate : wstate[w].pc = "running"}) = concurrency
    /\ \E w \in DOMAIN wstate : wstate[w].pc = "waiting"

\* the predicate of a scenario, read off its recorded outcome: a status was
\* received and lies in the range the label expects
Satisfied(sc) ==
    /\ sc.status = ""
    /\ \/ sc.label = "happy_path" /\ sc.status_code >= 200 /\ sc.status_code <= 299
       \/ sc.label = "negative_missing_required" /\ sc.status_code \in {400, 422}
       \/ sc.label = "negative_invalid_id" /\ sc.status_code = 404

\* C2: the overall verdict run_single_test returns for an operation is FAIL
\* if and only if at least one scenario attempted for it does not satisfy its
\* predicate; otherwise it is PASS.
C2_VerdictIffPredicates ==
    \A i \in 1..Len(results) :
        results[i].reason # "runner_exception" =>
           /\ results[i].overall \in {"PASS", "FAIL"}
           /\ results[i].overall = "FAIL" <=>
                 \E k \in 1..Len(results[i].scenarios) : ~Satisfied(results[i].scenarios[k])

\* one run holds a PASS of an operation with two scenarios and a FAIL whose
\* happy path succeeded and whose negative scenario did not
C2_Witness ==
    /\ \E i \in 1..Len(results) :
          /\ results[i].overall = "PASS"
          /\ Len(results[i].scenarios) >= 2
    /\ \E i \in 1..Len(results) :
          /\ results[i].overall = "FAIL"
          /\ Len(results[i].scenarios) >= 2
          /\ Satisfied(results[i].scenarios[1])

\* C3: every attempted scenario sends a request, and an operation whose
\* backend answers every scenario with a status satisfying the scenario's
\* predicate gets the verdict PASS.
C3_VerdictReflectsBackend ==
    \A i \in 1..Len(results) :
        results[i].reason # "runner_exception" =>
           /\ \A k \in 1..Len(results[i].scenarios) : results[i].scenarios[k].sent
           /\ (\A k \in 1..Len(results[i].scenarios) :
                  results[i].scenarios[k].sent => Satisfied(results[i].scenarios[k]))
              => results[i].overall = "PASS"

\* the entries of a result list that belong to task w
ResultsOf(rs, w) ==
    {i \in 1..Len(rs) : rs[i].method = tasks[w].method /\ rs[i].path = tasks[w].path}

\* a scenario outcome that records a failure to build or to send the request
FailedToRun(sc) == sc.status \in {"error", "fail"}

\* C19: a failure inside one operation's worker never aborts the batch: a
\* request-building error or a transport failure is recorded as a scenario
\* outcome and an exception of run_single_test as a result without
\* scenarios, each with the verdict FAIL; every operation whose
\* run_single_test did not raise records all its scenarios; every worker
\* that finished has exactly one result; the run never ends in an exception
\* once the workers exist, and the report holds one result per operation.
C19_WorkerFailuresAreRecorded ==
    /\ runner_pc = "raised" => DOMAIN wstate = {}
    /\ \A i \in 1..Len(results) :
          /\ results[i].reason = "runner_exception"
             => (results[i].overall = "FAIL" /\ results[i].scenarios = <<>>)
          /\ (\E k \in 1..Len(results[i].scenarios) : FailedToRun(results[i].scenarios[k]))
             => results[i].overall = "FAIL"
    /\ \A w \in DOMAIN wstate :
          /\ Cardinality(ResultsOf(results, w)) = IF wstate[w].pc = "done" THEN 1 ELSE 0
          /\ \A i \in ResultsOf(results, w) :
                IF synthesize_raises(tasks[w].details)
                THEN results[i].reason = "runner_exception"
                ELSE /\ results[i].reason # "runner_exception"
                     /\ Len(results[i].scenarios) = Len(scenarios(tasks[w].details))
    /\ runner_pc = "returned" =>
          /\ Len(report.results) = Len(tasks)
          /\ \A w \in DOMAIN wstate : Cardinality(ResultsOf(report.results, w)) = 1

\* the run returned a report in which one operation has the result of an
\* exception of run_single_test and the other all three of its scenarios,
\* one of them a request-building error and one a transport failure
C19_Witness ==
    /\ runner_pc = "returned"
    /\ \E i, j \in 1..Len(report.results) :
          /\ report.results[i].reason = "runner_exception"
          /\ Len(report.results[j].scenarios) = 3
          /\ \E k \in 1..3 : report.results[j].scenarios[k].status = "error"
          /\ \E k \in 1..3 : report.results[j].scenarios[k].status = "fail"

\* the report holds exactly one result for each operation of the task list
ReportComplete ==
    /\ runner_pc = "returned"
    /\ Len(report.results) = Len(tasks)
    /\ \A w \in 1..Len(tasks) : Cardinality(ResultsOf(report.results, w)) = 1

\* C20: for every ceiling N >= 1 and every document, when every request
\* returns a response or an error, test_all_endpoints eventually returns a
\* report, and the report holds exactly one result for each operation of the
\* eligible list.
C20_RunReturnsReport == <>ReportComplete

\* C20, for the runs whose task list was built: once the workers exist the
\* run returns its complete report.
C20_ReturnsOnceTasksAreBuilt == (runner_pc = "workers") ~> ReportComplete

(***************************************************************************)
(* Properties of the Spec Locator (SpecFetch).                             *)
(***************************************************************************)
\* the priority order of the candidates for the environment of the run
PriorityOrder ==
    IF env.OPENAPI_FULL_URL # NoUrl THEN <<env.OPENAPI_FULL_URL>>
    ELSE (IF env.CONTEXT_PATH = <<"csi">>
          THEN <<[base |-> API_BASE_URL, segs |-> <<"csi", "v3", "api-docs">>]>> ELSE <<>>)
         \o <<[base |-> API_BASE_URL, segs |-> <<"v3", "api-docs">>],
              [base |-> API_BASE_URL, segs |-> <<"api", "v3", "api-docs">>],
              [base |-> API_BASE_URL, segs |-> <<"csi-api", "empi-api", "api", "v3", "api-docs">>]>>

\* C8: fetch_openapi_spec requests the candidates strictly in priority order,
\* returns the first response that is a structurally valid document, and
\* requests no candidate after the winning one.
C8_PriorityOrderFirstWins ==
    LET n == Len(fetch.responses) IN
    /\ Len(fetch.requested) <= Len(PriorityOrder)
    /\ fetch.requested = SubSeq(PriorityOrder, 1, Len(fetch.requested))
    /\ \A i \in 1..(n - 1) : fetch.responses[i].kind # "document"
    /\ fetch.pc = "awaiting" =>
          /\ Len(fetch.requested) = n + 1
          /\ \A i \in 1..n : fetch.responses[i].kind # "document"
    /\ fetch.pc = "returned" =>
          /\ Len(fetch.requested) = n
          /\ IF fetch.responses[n].kind = "document"
             THEN /\ fetch.result = DocData(fetch.responses[n].doc)
                  /\ RESOLVED_OPENAPI_URL = PriorityOrder[n]
             ELSE /\ fetch.result.tag = "error"
                  /\ n = Len(PriorityOrder)

\* the third candidate answered with a document after two failures, and the
\* fourth was never requested
C8_Witness ==
    /\ fetch.pc = "returned"
    /\ fetch.result.tag = "doc"
    /\ Len(PriorityOrder) = 4
    /\ Len(fetch.requested) = 3
    /\ fetch.responses[1].kind = "500"

\* the soft error a failed candidate leaves
SoftError(kind, cand) ==
    [error |-> CASE kind = "404" -> "404 Not Found for OpenAPI"
                 [] kind \in {"500", "transport"} -> "Client error fetching OpenAPI"
                 [] kind \in {"not_json", "swagger_number"} -> "Failed to fetch OpenAPI"
                 [] kind = "not_openapi" -> "Unexpected response: not an OpenAPI JSON",
     at |-> cand]

\* C9: fetch_openapi_spec never raises: each failed candidate (404, another
\* non-success status, a transport error, a response that is no valid
\* document) records a soft error and the next candidate is tried; when every
\* candidate failed the function returns the error value holding the soft
\* error recorded last.
C9_SoftErrorsAdvance ==
    LET n == Len(fetch.responses)
        failed == \A i \in 1..n : fetch.responses[i].kind # "document"
    IN  /\ fetch.pc \in {"idle", "awaiting", "returned"}
        /\ (n > 0 /\ failed) =>
              fetch.last_error = SoftError(fetch.responses[n].kind, PriorityOrder[n])
        /\ (fetch.pc = "awaiting" /\ n > 0) =>
              /\ fetch.idx = n + 1
              /\ fetch.requested[n + 1] = PriorityOrder[n + 1]
        /\ (fetch.pc = "returned" /\ failed) =>
              /\ n = Len(PriorityOrder)
              /\ fetch.result = ErrorData(SoftError(fetch.responses[n].kind, PriorityOrder[n]))
        /\ fetch.pc = "returned" => fetch.result.tag \in {"doc", "error"}

\* a response that is no JSON, then one whose "swagger" is a number, and the
\* whole fetch ends with the soft error of the last candidate
C9_Witness ==
    /\ fetch.pc = "returned"
    /\ fetch.result.tag = "error"
    /\ Len(fetch.responses) = 4
    /\ fetch.responses[1].kind = "not_json"
    /\ fetch.responses[2].kind = "swagger_number"
    /\ fetch.responses[4].kind = "500"
    /\ fetch.result.error.at = PriorityOrder[4]

\* C10: a successful discovery without the full-URL override sets
\* CONTEXT_PATH_RUNTIME to the prefix of the winning candidate between the
\* base URL and the discovery suffix; with the override, or when every
\* candidate fails, CONTEXT_PATH_RUNTIME is left unchanged.
C10_RuntimeContextFollowsWinner ==
    [][ IF fetch.pc = "awaiting" /\ fetch'.pc = "returned" /\ fetch'.result.tag = "doc"
           /\ env.OPENAPI_FULL_URL = NoUrl
        THEN /\ RESOLVED_OPENAPI_URL'.base = API_BASE_URL
             /\ RESOLVED_OPENAPI_URL'.segs = CONTEXT_PATH_RUNTIME' \o <<"v3", "api-docs">>
             /\ RESOLVED_OPENAPI_URL' = fetch'.requested[Len(fetch'.requested)]
        ELSE CONTEXT_PATH_RUNTIME' = CONTEXT_PATH_RUNTIME ]_vars

\* the static hint is "csi", the hinted candidate failed and the bare path
\* won: the runtime context path is empty
C10_Witness ==
    /\ fetch.pc = "returned"
    /\ fetch.result.tag = "doc"
    /\ env.CONTEXT_PATH = <<"csi">>
    /\ env.OPENAPI_FULL_URL = NoUrl
    /\ RESOLVED_OPENAPI_URL = [base |-> API_BASE_URL, segs |-> <<"v3", "api-docs">>]
    /\ CONTEXT_PATH_RUNTIME = <<>>

\* with the override the winning URL is the override and the hint stays
C10_WitnessOverride ==
    /\ fetch.pc = "returned"
    /\ fetch.result.tag = "doc"
    /\ env.OPENAPI_FULL_URL # NoUrl
    /\ CONTEXT_PATH_RUNTIME = <<"csi">>

(***************************************************************************)
(* Properties of the catalog loop (SpecCatalog).                           *)
(***************************************************************************)
\* the entries of the document the loop has gone through that sit under a
\* recognized HTTP verb key
CompiledVerbEntries ==
    {i \in 1..catalog.done :
        Lower(catalog.doc[i].key) \in {"get", "post", "put", "delete", "patch", "head", "options"}}
EntryOf(e) == [method |-> Upper(e.key), path |-> e.path, details |-> e.details]

CachedOperations ==
    {i \in 1..Len(openapi_spec_cache.doc) :
        /\ openapi_spec_cache.doc[i].item = "mapping"
        /\ Lower(openapi_spec_cache.doc[i].key) \in
              {"get", "post", "put", "delete", "patch", "head", "options"}}
CachedId(i) ==
    Str(ReplaceSlash(IF openapi_spec_cache.doc[i].operationId # NoId
                     THEN openapi_spec_cache.doc[i].operationId
                     ELSE <<openapi_spec_cache.doc[i].key, "_">> \o openapi_spec_cache.doc[i].path))

\* C4: rebuilding the catalog is all-or-nothing: wherever another tool call
\* can observe it, operation_map is unloaded, or empty, or holds an entry for
\* every recognized-verb operation of the cached document; it is never left
\* partially populated, also when compiling an entry raises midway.
C4_RebuildAllOrNothing ==
    \/ operation_map.tag = "none"
    \/ operation_map.map = EmptyMap
    \/ /\ openapi_spec_cache.tag = "doc"
       /\ \A i \in CachedOperations : CachedId(i) \in DOMAIN operation_map.map

\* C5: a reload replaces catalog and document as one atomic swap: no
\* list_tools or operation call interleaved with a reload finds the catalog
\* unloaded, and no invocation that was in flight when the reload began
\* modifies the catalog the reload installs.
C5_ReloadIsAtomicSwap ==
    /\ \A h \in Handlers : ~handlers[h].saw_reset
    /\ ~reloaded.clobbered

\* C6: whenever both openapi_spec_cache and operation_map are set,
\* operation_map is exactly the compilation of the cached document: one entry
\* per operation id of its recognized-verb operations, with the method, path
\* template and details of the last operation under that id, and nothing
\* else; for a cached fetch error it is empty.
C6_CatalogIsCompilationOfCache ==
    (openapi_spec_cache.tag # "none" /\ operation_map.tag # "none") =>
        IF openapi_spec_cache.tag = "error" THEN operation_map.map = EmptyMap
        ELSE /\ DOMAIN operation_map.map = {CachedId(i) : i \in CachedOperations}
             /\ \A i \in CachedOperations :
                   (\A k \in CachedOperations : k > i => CachedId(k) # CachedId(i))
                   => operation_map.map[CachedId(i)] =
                         [method |-> Upper(openapi_spec_cache.doc[i].key),
                          path |-> openapi_spec_cache.doc[i].path,
                          details |-> openapi_spec_cache.doc[i].details]

(***************************************************************************)
(* Properties of request synthesis and the header tools (SpecSynth).       *)
(***************************************************************************)
\* the spellings of an argument key that supply a declared header: the exact
\* name, the names equal to it ignoring case, the names equal to it ignoring
\* case once hyphens are underscores
Spellings(p) ==
    CASE p = "x-group" ->
            << {"x-group"}, {"X-Group", "X-GROUP"}, {"x_group", "X_Group"} >>
      [] p = "X-Hospital" ->
            << {"X-Hospital"}, {"x-hospital", "X-HOSPITAL"}, {"x_hospital", "X_Hospital"} >>
      [] p = "x-trace" ->
            << {"x-trace"}, {"X-Trace"}, {"x_trace", "X_Trace"} >>

\* the explicit argument for header p, by precedence of spelling
ExplicitKeys(p, arguments) ==
    LET present(i) == Spellings(p)[i] \cap DOMAIN arguments
    IN  IF present(1) # {} THEN present(1)
        ELSE IF present(2) # {} THEN present(2)
        ELSE present(3)

\* the value the precedence gives header p: <<TRUE, v>>, or <<FALSE, "">>
\* when the header is to be omitted
Resolved(p, arguments, user, default) ==
    IF ExplicitKeys(p, arguments) # {}
    THEN <<TRUE, arguments[CHOOSE k \in ExplicitKeys(p, arguments) : TRUE]>>
    ELSE IF p # "x-trace" /\ user # "" THEN <<TRUE, user>>
    ELSE IF p # "x-trace" /\ default # "" THEN <<TRUE, default>>
    ELSE <<FALSE, "">>

\* C11: a declared x-group or x-hospital header gets its value with
\* precedence explicit argument (exact name, then case-insensitive, then
\* hyphen/underscore-normalized) > user override > environment default and is
\* omitted when none exists; a declared header of another name gets a value
\* only from an explicit argument.
C11_HeaderPrecedence ==
    synth.call.name = "report" =>
        /\ ~synth.built.raised
        /\ \A p \in {"x-group", "X-Hospital", "x-trace"} :
              LET r == Resolved(p, synth.call.arguments,
                                IF p = "x-group" THEN synth.user_group ELSE synth.user_hospital,
                                IF p = "x-group" THEN env.DEFAULT_X_GROUP
                                ELSE env.DEFAULT_X_HOSPITAL)
              IN  /\ p \in DOMAIN synth.built.headers <=> r[1]
                  /\ r[1] => synth.built.headers[p] = r[2]

\* an explicit argument under the normalized spelling beats override and
\* default, the override beats the default for the other header, and the
\* header of another name is omitted
C11_Witness ==
    /\ synth.call = CallTool("report", Args1("X_Group", "3"))
    /\ synth.user_group = "5"
    /\ synth.user_hospital = "9"
    /\ env.DEFAULT_X_GROUP = "7"
    /\ synth.built.headers = Args2("x-group", "3", "X-Hospital", "9")

(***************************************************************************)
(* Properties of the header context under concurrent calls (SpecContext).  *)
(***************************************************************************)
\* task h synthesizes its request in this step
Synthesizes(h) == handlers[h].pc # "requesting" /\ handlers'[h].pc = "requesting"

\* the headers carry value v for the header of the given spellings
Carries(headers, spellings, v) == \E k \in DOMAIN headers \cap spellings : headers[k] = v

\* C12: once set_x_group(v) or set_x_hospital(v) has returned, the override
\* is v until the next set or clear of that header, and every operation
\* request synthesized without an explicit argument for the header carries the
\* override; once clear_header_context has returned both overrides are unset
\* and such a request carries the environment default.
C12_OverrideObservedBySynthesis ==
    [][ /\ (last_reply' # last_reply /\ last_reply'.kind = "x_group_set")
           => (USER_X_GROUP' = last_reply'.value /\ last_reply'.value # "")
        /\ (last_reply' # last_reply /\ last_reply'.kind = "x_hospital_set")
           => (USER_X_HOSPITAL' = last_reply'.value /\ last_reply'.value # "")
        /\ (last_reply' # last_reply /\ last_reply'.kind = "cleared")
           => (USER_X_GROUP' = "" /\ USER_X_HOSPITAL' = "")
        /\ USER_X_GROUP' # USER_X_GROUP
           => (last_reply' # last_reply /\ last_reply'.kind \in {"x_group_set", "cleared"})
        /\ USER_X_HOSPITAL' # USER_X_HOSPITAL
           => (last_reply' # last_reply /\ last_reply'.kind \in {"x_hospital_set", "cleared"})
        /\ \A h \in Handlers :
              (Synthesizes(h) /\ handlers'[h].call.arguments = EmptyArgs) =>
                 /\ Carries(handlers'[h].request.headers, {"x-group", "X-Group"},
                            IF USER_X_GROUP # "" THEN USER_X_GROUP ELSE env.DEFAULT_X_GROUP)
                 /\ Carries(handlers'[h].request.headers, {"x-hospital", "X-Hospital"},
                            IF USER_X_HOSPITAL # "" THEN USER_X_HOSPITAL
                            ELSE env.DEFAULT_X_HOSPITAL)
                 /\ "" \notin {handlers'[h].request.headers[k] :
                                  k \in DOMAIN handlers'[h].request.headers}
      ]_vars

\* set_x_group("5") has returned, the environment default is "7", and a
\* request synthesized since is in flight with x-group "5" and the default
\* x-hospital
C12_Witness ==
    /\ USER_X_GROUP = "5"
    /\ USER_X_HOSPITAL = ""
    /\ env.DEFAULT_X_GROUP = "7"
    /\ \E h \in Handlers :
          /\ handlers[h].pc = "requesting"
          /\ handlers[h].request.headers = Args2("x-group", "5", "X-Hospital", "7")

(***************************************************************************)
(* Properties of the header tools (SpecSynth).                             *)
(***************************************************************************)
\* the sample values that carry leading or trailing whitespace
Padded == {" 5 ", "9 ", "  "}
\* the sample values that are empty or whitespace only
Blank == {"", "  "}

\* the value a set call supplies: the one under the underscore key, else the
\* one under the hyphen key, else none
Supplied(call) ==
    LET u == IF call.name = "set_x_group" THEN "x_group" ELSE "x_hospital"
        y == IF call.name = "set_x_group" THEN "x-group" ELSE "x-hospital"
    IN  IF u \in DOMAIN call.arguments THEN call.arguments[u]
        ELSE IF y \in DOMAIN call.arguments THEN call.arguments[y]
        ELSE NoArg

SetCalls == {c \in HeaderCalls : c.name \in {"set_x_group", "set_x_hospital"}}

\* C13: set_x_group and set_x_hospital reject a missing, empty or
\* whitespace-only value and leave both overrides unchanged then; every other
\* value is accepted; in every reachable state each override is unset or a
\* non-empty string without leading or trailing whitespace.
C13_RejectsBlankValues ==
    [][ /\ \A c \in SetCalls :
              HeaderTool(c) =>
                 IF Supplied(c) \in {NoArg} \cup Blank
                 THEN /\ last_reply'.kind \in {"missing_argument", "empty_value"}
                      /\ UNCHANGED <<USER_X_GROUP, USER_X_HOSPITAL>>
                 ELSE last_reply'.kind \in {"x_group_set", "x_hospital_set"}
        /\ {USER_X_GROUP, USER_X_HOSPITAL, USER_X_GROUP', USER_X_HOSPITAL'} \cap Padded = {}
      ]_vars

\* set_x_group was given a whitespace-only value after an accepted one: the
\* call is rejected and the accepted override is still there
C13_Witness ==
    /\ last_reply.kind = "empty_value"
    /\ USER_X_GROUP = "5"
    /\ USER_X_HOSPITAL = "9"

\* C14: the header tools are idempotent: after a header tool has run, running
\* the same call again changes neither override nor the reply;
\* clear_header_context leaves both overrides unset, show_header_context
\* changes no override, set_x_group leaves the x-hospital override unchanged
\* and set_x_hospital leaves the x-group override unchanged.
C14_HeaderToolsIdempotent ==
    [][ \A c \in HeaderCalls :
           HeaderTool(c) =>
              LET again == header_tool(c, USER_X_GROUP', USER_X_HOSPITAL',
                                       env.DEFAULT_X_GROUP, env.DEFAULT_X_HOSPITAL)
              IN  /\ again.user_group = USER_X_GROUP'
                  /\ again.user_hospital = USER_X_HOSPITAL'
                  /\ again.reply = last_reply'
                  /\ c.name = "clear_header_context"
                     => (USER_X_GROUP' = NoValue /\ USER_X_HOSPITAL' = NoValue)
                  /\ c.name = "show_header_context"
                     => UNCHANGED <<USER_X_GROUP, USER_X_HOSPITAL>>
                  /\ c.name = "set_x_group" => UNCHANGED USER_X_HOSPITAL
                  /\ c.name = "set_x_hospital" => UNCHANGED USER_X_GROUP
      ]_vars

\* set_x_group has just run while the x-hospital override was set
C14_Witness ==
    /\ last_reply.kind = "x_group_set"
    /\ last_reply.value = "5"
    /\ USER_X_GROUP = "5"
    /\ USER_X_HOSPITAL = "9"

(***************************************************************************)
(* Frame of the header context (SpecFrame).                                *)
(***************************************************************************)
\* C15: the user header overrides are changed only by set_x_group,
\* set_x_hospital and clear_header_context: a step that changes one of them
\* is the reply of one of these tools, and it moves no task and changes
\* neither the cached document nor the catalog; so no load (succeeding or
\* failing), list_tools, request synthesis, operation invocation or test run
\* changes them.
C15_OverridesChangedByHeaderToolsOnly ==
    [][ (USER_X_GROUP' # USER_X_GROUP \/ USER_X_HOSPITAL' # USER_X_HOSPITAL) =>
           /\ last_reply'.kind \in {"x_group_set", "x_hospital_set", "cleared"}
           /\ handlers' = handlers
           /\ openapi_spec_cache' = openapi_spec_cache
           /\ operation_map' = operation_map
      ]_vars

\* the override is still there after a reload failed, while another task runs
\* the tests with it
C15_Witness ==
    /\ USER_X_GROUP = "5"
    /\ openapi_spec_cache.tag = "error"
    /\ \E h \in Handlers :
          /\ handlers[h].pc = "testing"
          /\ handlers[h].request.headers = Args2("--x-group", "5", "--x-hospital", "7")
    /\ last_reply.kind = "reload_failed"

(***************************************************************************)
(* Properties of operation invocation (SpecInvoke).                        *)
(***************************************************************************)
NotFoundReply == [kind |-> "error", tools |-> <<>>, value |-> "not_found"]
TransportErrorReply == [kind |-> "error", tools |-> <<>>, value |-> "api_request_failed"]
NoContentReply == [kind |-> "result", tools |-> <<>>, value |-> "no_content"]

\* C16: for every method the gateway executes, a 404 response is mapped to
\* the not-found result, any other non-2xx status to the transport-error
\* result, and a 204 response to the no-content sentinel.
C16_StatusMapping ==
    [][ \A h \in Handlers, resp \in ApiResponses :
           ApiResponse(h, resp) =>
              /\ resp = "404" => last_reply' = NotFoundReply
              /\ resp = "500" => last_reply' = TransportErrorReply
              /\ resp = "204" => last_reply' = NoContentReply
      ]_vars

\* task h leaves make_api_request in this step
Returns(h) == handlers[h].pc = "requesting" /\ handlers'[h].pc = "idle"

\* C17: for every cataloged operation, whatever its verb, the invocation
\* issues one HTTP request with that verb and make_api_request returns a
\* mapping (a result or a structured error), which call_tool reports.
C17_EveryVerbIssuesRequest ==
    [][ \A h \in Handlers :
           Returns(h) =>
              /\ handlers[h].request.sent
              /\ last_reply'.kind \in {"result", "error"}
      ]_vars

\* the declared path parameters of the called operation that have no argument
MissingPathArgs(call, map) ==
    {n \in ParamNames(map[call.name].details, {"path"}) : n \notin DOMAIN call.arguments}

\* C18: when a declared path parameter of the called operation has no
\* argument, call_tool replies 'Error building request' and the task sends no
\* request: whether the call finds the catalog loaded or had to wait for the
\* load; and no task ever has a request in flight for a call that lacks one.
C18_MissingPathParameter ==
    [][ \A h \in Handlers :
           /\ \A call \in InvokeCalls :
                 ( /\ Receive(h, call)
                   /\ openapi_spec_cache.tag # "none" /\ operation_map.tag = "map"
                   /\ call.name \in DOMAIN operation_map.map
                   /\ MissingPathArgs(call, operation_map.map) # {} )
                 => (last_reply' = Reply("build_error") /\ handlers' = handlers)
           /\ ( /\ handlers[h].pc = "loading" /\ handlers'[h].pc # "loading"
                /\ operation_map'.tag = "map"
                /\ handlers[h].call.name \in DOMAIN operation_map'.map
                /\ MissingPathArgs(handlers[h].call, operation_map'.map) # {} )
              => (last_reply' = Reply("build_error") /\ handlers'[h].pc = "idle")
           /\ handlers'[h].pc = "requesting"
              => MissingPathArgs(handlers'[h].call, operation_map'.map) = {}
      ]_vars

\* get__books_{id} was called without `id` (with `ID` only) on the loaded
\* catalog: the reply is the build error and nothing is in flight
C18_Witness ==
    /\ operation_map.tag = "map"
    /\ "get__books_{id}" \in DOMAIN operation_map.map
    /\ last_reply = Reply("build_error")
    /\ \A h \in Handlers : handlers[h].pc = "idle"

(***************************************************************************)
(* The report of a run: counts, order, scenario sequence and arguments.    *)
(***************************************************************************)
\* the operation ids of the sample documents in which a filter text occurs,
\* letter case aside
IdsMentioning(text) == IF text = "LIST" THEN {<<"listBooks">>} ELSE {}

\* the positions of the document's operations under a recognized verb that
\* pass the filter
FilteredOperations ==
    {i \in 1..Len(openapi) :
        /\ openapi[i].key \in {"get", "GET", "post", "POST", "put", "delete", "patch", "head",
                                "options"}
        /\ filter_text # NoFilter => openapi[i].operationId \in IdsMentioning(filter_text)}

\* C21: in every report, summary.total is the number of results, which is
\* the number of operations under a recognized verb that pass the filter;
\* passed + failed = total, and passed counts exactly the results whose
\* overall is PASS.
C21_SummaryCounts ==
    report # NoReport =>
        /\ report.summary.total = Len(report.results)
        /\ Len(report.results) = Cardinality(FilteredOperations)
        /\ report.summary.passed + report.summary.failed = report.summary.total
        /\ report.summary.passed =
              Cardinality({i \in 1..Len(report.results) : report.results[i].overall = "PASS"})

\* a report of a filtered run: one of two operations passed the filter, and
\* it passed
C21_Witness ==
    /\ report # NoReport
    /\ filter_text = "LIST"
    /\ Len(openapi) = 2
    /\ report.summary = [total |-> 1, passed |-> 1, failed |-> 0]

\* the results of a report in the order of the task list, which no
\* completion order changes
TaskOrder(rs) == [w \in 1..Len(tasks) |-> rs[CHOOSE i \in ResultsOf(rs, w) : TRUE]]

\* C22: the order of the results list in the report is deterministic: for a
\* fixed set of operations and fixed responses the list is the same for every
\* completion order of the workers, i.e. it is the list that the run in which
\* the workers complete in task order reports.
C22_ReportOrderDeterministic ==
    report # NoReport => report.results = SortByOperationId(TaskOrder(report.results))

\* the same, for the reports whose results have pairwise different ids
C22_DeterministicForDistinctIds ==
    (/\ report # NoReport
     /\ \A i, j \in 1..Len(report.results) :
            i # j => report.results[i].operationId # report.results[j].operationId)
        => report.results = SortByOperationId(TaskOrder(report.results))

\* two operations with different ids completed against their task order
C22_DistinctIdsWitness ==
    /\ report # NoReport
    /\ Len(results) = 2
    /\ results[1].operationId # results[2].operationId
    /\ results # TaskOrder(results)

\* the fixed order of the scenario labels
ScenarioRank(label) ==
    CASE label = "happy_path" -> 1
      [] label = "negative_missing_required" -> 2
      [] label = "negative_invalid_id" -> 3

InFixedOrder(res) ==
    \A k, l \in 1..Len(res) : k < l => ScenarioRank(res[k].label) < ScenarioRank(res[l].label)

\* the scenario of worker w whose request is in flight
InFlight(ws, w) == ScenariosOf[tasks[w].details][ws[w].idx]

\* C23: within one operation the scenarios run strictly sequentially in the
\* fixed order happy_path, negative_missing_required, negative_invalid_id: a
\* worker has at most one request in flight, the outcomes of all scenarios
\* before it are recorded, in the fixed order, and the step that issues the
\* request of a scenario has recorded the outcome of the request before it.
C23_ScenariosSequential ==
    [][\A w \in DOMAIN wstate :
          /\ InFixedOrder(wstate'[w].res)
          /\ wstate'[w].pc = "running" =>
                /\ Len(wstate'[w].res) = wstate'[w].idx - 1
                /\ \A k \in 1..Len(wstate'[w].res) :
                      /\ wstate'[w].res[k].label = ScenariosOf[tasks[w].details][k].label
                      /\ ScenarioRank(wstate'[w].res[k].label)
                            < ScenarioRank(InFlight(wstate', w).label)
          /\ (wstate[w].pc = "running" /\ wstate'[w] # wstate[w]) =>
                /\ wstate'[w].idx > wstate[w].idx
                /\ Len(wstate'[w].res) >= wstate[w].idx
                /\ wstate'[w].res[wstate[w].idx].label = InFlight(wstate, w).label
                /\ wstate'[w].res[wstate[w].idx].sent
                /\ SubSeq(wstate'[w].res, 1, Len(wstate[w].res)) = wstate[w].res
      ]_vars

\* the third scenario of an operation is in flight, the outcomes of the
\* first two are recorded
C23_Witness ==
    \E w \in DOMAIN wstate :
        /\ wstate[w].pc = "running"
        /\ wstate[w].idx = 3
        /\ InFlight(wstate, w).label = "negative_invalid_id"
        /\ Len(wstate[w].res) = 2

\* what an operation declares: the positions of its required path/query
\* parameters, the required fields of its object body, its path parameters
RequiredPositions(d) ==
    {i \in 1..Len(d.parameters) : d.parameters[i].required /\ d.parameters[i].in \in {"path", "query"}}
RequiredBodyFields(d) ==
    IF d.requestBody.present /\ d.requestBody.type = "object" THEN d.requestBody.required ELSE <<>>
DeclaresRequired(d) == RequiredPositions(d) # {} \/ RequiredBodyFields(d) # <<>>
FirstRequired(d) ==
    IF RequiredPositions(d) # {}
    THEN d.parameters[CHOOSE i \in RequiredPositions(d) : \A j \in RequiredPositions(d) : i <= j].name
    ELSE RequiredBodyFields(d)[1]
PathPositions(d) == {i \in 1..Len(d.parameters) : d.parameters[i].in = "path"}
NumericPathPositions(d) ==
    {i \in PathPositions(d) : d.parameters[i].type \in {"integer", "number"}}
Labels(scs) == {scs[i].label : i \in 1..Len(scs)}
Executed(label) == plan.pc = "executed" /\ plan.label = label

\* C24: a negative_missing_required scenario exists exactly when the
\* operation declares a required path/query parameter or a required body
\* field; its arguments are the synthesized base arguments without the first
\* such field and with every other argument unchanged; the base arguments
\* stay as synthesized and the other scenarios get all of them.
C24_MissingRequiredArguments ==
    plan.pc \in {"prepared", "executed"} =>
        /\ "negative_missing_required" \in Labels(plan.scenarios) <=> DeclaresRequired(plan.details)
        /\ plan.base_args = synthesize_base_args(plan.details)
        /\ Executed("negative_missing_required") =>
              /\ DOMAIN plan.args = DOMAIN plan.base_args \ {FirstRequired(plan.details)}
              /\ \A n \in DOMAIN plan.args : plan.args[n] = plan.base_args[n]
        /\ Executed("happy_path") => plan.args = plan.base_args
        /\ Executed("negative_invalid_id") => DOMAIN plan.args = DOMAIN plan.base_args

\* the scenario ran for an operation with two more arguments, after which
\* the invalid-id scenario is still to run
C24_Witness ==
    /\ Executed("negative_missing_required")
    /\ FirstRequired(plan.details) \in DOMAIN plan.base_args
    /\ Cardinality(DOMAIN plan.args) = 2
    /\ Len(plan.scenarios) = 3

\* C25: a negative_invalid_id scenario exists if and only if the operation
\* has a path parameter of type integer or number; in that scenario every
\* such parameter has the value 999999999 and every argument that is not a
\* path parameter keeps its synthesized value.
C25_InvalidIdArguments ==
    plan.pc \in {"prepared", "executed"} =>
        /\ "negative_invalid_id" \in Labels(plan.scenarios) <=> NumericPathPositions(plan.details) # {}
        /\ Executed("negative_invalid_id") =>
              /\ \A i \in NumericPathPositions(plan.details) :
                    /\ plan.details.parameters[i].name \in DOMAIN plan.args
                    /\ plan.args[plan.details.parameters[i].name] = "999999999"
              /\ \A n \in DOMAIN plan.base_args :
                    n \notin {plan.details.parameters[i].name : i \in PathPositions(plan.details)}
                        => n \in DOMAIN plan.args /\ plan.args[n] = plan.base_args[n]

\* the scenario ran for an operation with a numeric path parameter and an
\* argument that is no path parameter
C25_Witness ==
    /\ Executed("negative_invalid_id")
    /\ \E n \in DOMAIN plan.args : plan.args[n] = "999999999"
    /\ \E n \in DOMAIN plan.args : plan.args[n] # "999999999"
                                      /\ n \notin ParamNames(plan.details, {"path"})

(***************************************************************************)
(* The standalone run: exit codes and the report file.                     *)
(***************************************************************************)
\* every operation of the document that passes the filter has a verdict, and
\* it is PASS
AllVerdictsPass ==
    /\ Len(results) = Cardinality(FilteredOperations)
    /\ \A i \in 1..Len(results) : results[i].overall = "PASS"
SomeVerdictFails == \E i \in 1..Len(results) : results[i].overall = "FAIL"

\* C26: the standalone runner exits with 0 if and only if the spec was loaded
\* and every operation's verdict is PASS, with 1 if the spec was loaded and
\* at least one operation's verdict is FAIL, and with 130 when the run is
\* interrupted by the user.
C26_ExitCodes ==
    run.pc = "exited" =>
        IF run.interrupted THEN run.exit_code = 130
        ELSE /\ run.exit_code = 0 <=> (run.loaded /\ AllVerdictsPass)
             /\ (run.loaded /\ SomeVerdictFails) => run.exit_code = 1

\* C26, amended: the exit code is 0 if and only if the spec was loaded, every
\* operation's verdict is PASS and the report file was written; 1 if the
\* spec was loaded and a verdict is FAIL or the run or the writing of the
\* report raised; 130 when the run is interrupted.
C26_ExitCodesWhenWritten ==
    run.pc = "exited" =>
        IF run.interrupted THEN run.exit_code = 130
        ELSE /\ run.exit_code = 0 <=> (run.loaded /\ AllVerdictsPass /\ run.file = "complete")
             /\ (run.loaded /\ (SomeVerdictFails \/ run.file # "complete")) => run.exit_code = 1

\* a run of two operations that exited with 0
C26_Witness ==
    /\ run.pc = "exited"
    /\ run.exit_code = 0
    /\ Len(results) = 2
    /\ run.file = "complete"

\* a run whose two operations passed and whose report could not be opened
C26_UnwrittenWitness ==
    /\ run.pc = "exited"
    /\ ~run.interrupted
    /\ Len(results) = 2
    /\ AllVerdictsPass
    /\ run.file = "none"
    /\ run.exit_code = 1

\* C27: when no discovery candidate yields a valid document, the run exits
\* with 2 before any operation executes: test_all_endpoints was not called,
\* no worker exists, no scenario request was sent and no report file was
\* written; and only such a run exits with 2.
C27_LoadFailureExitsBeforeAnyOperation ==
    /\ (run.pc = "exited" /\ ~run.loaded /\ ~run.interrupted) => run.exit_code = 2
    /\ run.exit_code = 2 => ~run.loaded
    /\ (run.pc # "off" /\ ~run.loaded) =>
          /\ runner_pc = "idle"
          /\ tasks = <<>> /\ wstate = <<>> /\ results = <<>>
          /\ report = NoReport
          /\ run.file = "none" /\ run.writes = 0

\* the run exited with 2 although the target serves a document with
\* operations at some address the discovery did not get it from
C27_Witness ==
    /\ run.pc = "exited"
    /\ run.exit_code = 2
    /\ Len(openapi) = 2

\* the report file is written at most once and only when every worker is done
C28_WrittenOnceAfterWorkers ==
    /\ run.writes <= 1
    /\ run.file # "none" =>
          /\ runner_pc = "returned"
          /\ \A w \in DOMAIN wstate : wstate[w].pc = "done"
          /\ Len(results) = Len(tasks)

\* C28: the report file is written exactly once per run and only after every
\* worker has completed, and a run that ended, however it was aborted, leaves
\* either no report file of this run or a complete one, never a partially
\* written file.
C28_ReportWrittenOnceAtomically ==
    /\ C28_WrittenOnceAfterWorkers
    /\ (run.pc = "exited" /\ run.exit_code \in {0, 1}) => (run.file = "complete" <=> run.writes = 1)
    /\ run.pc = "exited" => run.file \in {"none", "complete"}

(***************************************************************************)
(* Reloads and the background test run.                                    *)
(***************************************************************************)
\* in this step the reload served by task h replies
ReloadReplies(h) ==
    /\ handlers[h].pc = "loading"
    /\ IsReload(handlers[h].call)
    /\ handlers'[h].pc # "loading"

\* C29: a background test run triggered by a successful reload is detached:
\* the step in which the reload replies success creates the task of the run
\* and ends the reload's own task, so the reply waits for no test run; a
\* reload that fails creates no task; and a step of a background run changes
\* neither a reply nor the cache, the catalog, the overrides or any task
\* that serves a request.
C29_AutoRunDetached ==
    [][/\ \A h \in Handlers :
            ReloadReplies(h) =>
                /\ handlers'[h].pc = "idle"
                /\ last_reply'.kind \in {"reloaded", "reload_failed", "exception"}
                /\ auto'.tasks =
                      IF last_reply'.kind = "reloaded" /\ auto.AUTO_RUN_EMPI_TESTS
                      THEN Append(auto.tasks, AutoTask("reload"))
                      ELSE auto.tasks
       /\ auto' # auto =>
            \/ \E h \in Handlers : ReloadReplies(h) /\ last_reply'.kind = "reloaded"
            \/ /\ Len(auto'.tasks) = Len(auto.tasks)
               /\ UNCHANGED <<last_reply, openapi_spec_cache, operation_map, handlers,
                              CONTEXT_PATH_RUNTIME, RESOLVED_OPENAPI_URL, USER_X_GROUP,
                              USER_X_HOSPITAL>>
      ]_vars

\* the run of an earlier reload failed, a later reload has replied success
\* while its own run has not started, and the catalog is loaded
C29_Witness ==
    /\ Len(auto.tasks) = 2
    /\ auto.tasks[1].pc = "failed"
    /\ auto.tasks[2].pc = "created"
    /\ last_reply.kind = "reloaded"
    /\ operation_map.tag = "map" /\ openapi_spec_cache.tag = "doc"

\* C30: loading is idempotent: a load against the unchanged target leaves
\* the same catalog (operation ids with method, path and details), the same
\* cached document and the same runtime context path as the first load did,
\* and no step in between changes the runtime context path.
C30_LoadingIdempotent ==
    [][/\ (target.loads >= 1 /\ target'.loads > target.loads) =>
            /\ operation_map' = target.once.map
            /\ openapi_spec_cache' = target.once.cache
            /\ CONTEXT_PATH_RUNTIME' = target.once.runtime
            /\ RESOLVED_OPENAPI_URL' = target.once.resolved
       /\ target.loads >= 1 => CONTEXT_PATH_RUNTIME' = target.once.runtime
      ]_vars

\* the second load has completed and left a catalog under a context path
\* that the discovery found
C30_Witness ==
    /\ target.loads = 2
    /\ operation_map.tag = "map"
    /\ DOMAIN operation_map.map # {}
    /\ CONTEXT_PATH_RUNTIME = <<"api">>
    /\ env.CONTEXT_PATH = <<"csi">>

(***************************************************************************)
(* Properties of the test runs the server starts (SpecTests).              *)
(***************************************************************************)
\* the x_group / x_hospital argument of a run_empi_tests call, None and the
\* empty text being no argument
TestArg(call, underscore, hyphen) ==
    Or(Get(call.arguments, underscore), Get(call.arguments, hyphen))
\* the value of a flag on the command line of a test run, NoValue without it
Flag(headers, flag) == IF flag \in DOMAIN headers THEN headers[flag] ELSE NoValue
\* the step in which task h starts a test run
StartsTests(h) == handlers[h].pc = "idle" /\ handlers'[h].pc = "testing"

\* C31: when run_empi_tests starts, each header value passed to the test run
\* is the user override if one is set, else the argument of the call if one
\* is given, else the environment default.
C31_OverrideBeforeArgument ==
    [][\A h \in Handlers :
          StartsTests(h) =>
             LET call == handlers'[h].call
                 headers == handlers'[h].request.headers
                 Preferred(user, arg, default) ==
                     IF user # NoValue THEN user
                     ELSE IF arg \notin {NoArg, ""} THEN arg ELSE default
             IN  /\ Flag(headers, "--x-group")
                      = Preferred(USER_X_GROUP, TestArg(call, "x_group", "x-group"),
                                  env.DEFAULT_X_GROUP)
                 /\ Flag(headers, "--x-hospital")
                      = Preferred(USER_X_HOSPITAL, TestArg(call, "x_hospital", "x-hospital"),
                                  env.DEFAULT_X_HOSPITAL)]_vars

\* what the code does instead: the argument of the call comes first, then the
\* user override, then the environment default; an empty text under the
\* hyphen key alone is an argument too, and no value is passed then
C31_ArgumentBeforeOverride ==
    [][\A h \in Handlers :
          StartsTests(h) =>
             LET call == handlers'[h].call
                 headers == handlers'[h].request.headers
                 Preferred(user, arg, default) ==
                     IF arg # NoArg THEN arg
                     ELSE IF user # NoValue THEN user ELSE default
             IN  /\ Flag(headers, "--x-group")
                      = Preferred(USER_X_GROUP, TestArg(call, "x_group", "x-group"),
                                  env.DEFAULT_X_GROUP)
                 /\ Flag(headers, "--x-hospital")
                      = Preferred(USER_X_HOSPITAL, TestArg(call, "x_hospital", "x-hospital"),
                                  env.DEFAULT_X_HOSPITAL)]_vars
\* a test run started with an argument while a different override was set
C31_ArgumentWitness ==
    \E h \in Handlers :
        /\ handlers[h].pc = "testing"
        /\ USER_X_GROUP = "5"
        /\ TestArg(handlers[h].call, "x_group", "x-group") = "3"
        /\ Flag(handlers[h].request.headers, "--x-group") = "3"

(***************************************************************************)
(* Properties of argument synthesis (SpecArgs).                            *)
(***************************************************************************)
\* the positions of the path and query parameters of d, and of the
\* properties of its object body
ArgumentParams(d) == {i \in 1..Len(d.parameters) : d.parameters[i].in \in {"path", "query"}}
ArgumentProps(d) == IF BodyIsObject(d) THEN 1..Len(d.requestBody.properties) ELSE {}
Synthesized == plan.pc \in {"prepared", "executed"}

\* C32: every path/query parameter and every body property gets the value
\* the synthesis rule assigns to its schema: the first value of an
\* enumeration, the fixed instant or date for a date-time or date string,
\* for parameters as for body properties.
C32_ArgumentsFollowSchema ==
    Synthesized =>
        LET d == plan.details
        IN  /\ \A i \in ArgumentProps(d) :
                  plan.base_args[d.requestBody.properties[i].name]
                     = synth_value(d.requestBody.properties[i],
                                   d.requestBody.properties[i].name)
            /\ \A i \in ArgumentParams(d) :
                  d.parameters[i].name \notin BodyPropNames(d) =>
                     plan.base_args[d.parameters[i].name]
                        = synth_value(d.parameters[i], d.parameters[i].name)

\* what holds instead: a body property follows its whole schema, a parameter
\* the type of its schema alone
C32_ParametersFollowTypeOnly ==
    Synthesized =>
        LET d == plan.details
        IN  /\ DOMAIN plan.base_args
                 = {d.parameters[i].name : i \in ArgumentParams(d)}
                   \cup {d.requestBody.properties[i].name : i \in ArgumentProps(d)}
            /\ \A i \in ArgumentProps(d) :
                  plan.base_args[d.requestBody.properties[i].name]
                     = synth_value(d.requestBody.properties[i],
                                   d.requestBody.properties[i].name)
            /\ \A i \in ArgumentParams(d) :
                  d.parameters[i].name \notin BodyPropNames(d) =>
                     plan.base_args[d.parameters[i].name]
                        = synth_value(TypeOnly(d.parameters[i].type), d.parameters[i].name)
\* a parameter with an enumeration that got the sample text, next to a
\* property that got the first value of its enumeration
C32_EnumWitness ==
    /\ Synthesized
    /\ "status" \in DOMAIN plan.base_args /\ plan.base_args["status"] = "sample_status"
    /\ "state" \in DOMAIN plan.base_args /\ plan.base_args["state"] = "new"
    /\ "born" \in DOMAIN plan.base_args /\ plan.base_args["born"] = "2000-01-01"

(***************************************************************************)
(* The header tools and the load state (SpecTools).                        *)
(***************************************************************************)
\* C33: the header tools do not need the OpenAPI document: whatever the load
\* state (unloaded, loading, loaded, load failed), the call replies at once
\* with the tool's own reply, no task starts a spec fetch, and the cached
\* document, the catalog and the runtime context path stay as they are.
C33_HeaderToolsNeedNoDocument ==
    [][\A h \in Handlers, call \in ToolCalls :
          (IsHeaderTool(call) /\ Receive(h, call)) =>
             /\ last_reply'.kind
                   = CASE call.name = "set_x_group" -> "x_group_set"
                       [] call.name = "set_x_hospital" -> "x_hospital_set"
                       [] call.name = "show_header_context" -> "shown"
                       [] call.name = "clear_header_context" -> "cleared"
             /\ handlers' = handlers
             /\ openapi_spec_cache' = openapi_spec_cache
             /\ operation_map' = operation_map
             /\ CONTEXT_PATH_RUNTIME' = CONTEXT_PATH_RUNTIME
             /\ RESOLVED_OPENAPI_URL' = RESOLVED_OPENAPI_URL]_vars

\* set_x_group replied after a load had failed, and nothing is loading
C33_Witness ==
    /\ openapi_spec_cache.tag = "error"
    /\ Loading = {}
    /\ last_reply.kind = "x_group_set"
    /\ USER_X_GROUP = "5"
\* show_header_context replied while nothing was loaded and a load was under way
C33_UnloadedWitness ==
    /\ openapi_spec_cache.tag = "none"
    /\ Loading # {}
    /\ last_reply.kind = "shown"
\* clear_header_context replied on a loaded catalog
C33_LoadedWitness ==
    /\ openapi_spec_cache.tag = "doc"
    /\ last_reply.kind = "cleared"

(***************************************************************************)
(* Concurrent loads and reloads (Spec).                                    *)
(***************************************************************************)
\* reload_openapi_spec has reported success and no load has completed since:
\* the cache and the catalog are those the reload installed
ReloadSucceeded ==
    /\ last_reply.kind = "reloaded"
    /\ openapi_spec_cache.tag = "doc"
    /\ operation_map = MapOf(build_catalog(openapi_spec_cache.doc).map)

\* C34: once reload_openapi_spec has reported success, the catalog is not
\* replaced by the result of a spec fetch that was started before that
\* reload began.
C34_ReloadedCatalogNotReplacedByOlderFetch ==
    [][\A h \in reloaded.older :
          (ReloadSucceeded /\ handlers[h].pc = "loading" /\ handlers'[h].pc # "loading") =>
             /\ openapi_spec_cache' = openapi_spec_cache
             /\ operation_map' = operation_map]_vars

\* the state after the replacement: the catalog is that of the older fetch,
\* which is not the document the reload installed
C34_ReplacedWitness ==
    /\ reloaded.clobbered
    /\ openapi_spec_cache.tag = "doc"
    /\ openapi_spec_cache.doc = DocSearch
    /\ last_reply.kind = "tools"

(***************************************************************************)
(* The globals of the Spec Locator and the cache (SpecRace, Spec).         *)
(***************************************************************************)
\* C35: whenever a document is cached, CONTEXT_PATH_RUNTIME and
\* RESOLVED_OPENAPI_URL are those the fetch of that document assigned, i.e.
\* those of the candidate the cached document came from.
C35_GlobalsMatchCachedDocument ==
    openapi_spec_cache.tag = "doc" =>
        /\ CONTEXT_PATH_RUNTIME = reloaded.origin.runtime
        /\ RESOLVED_OPENAPI_URL = reloaded.origin.resolved

\* the cached document came from the first candidate, the globals are those
\* of the second, and no load is under way
C35_MismatchWitness ==
    /\ openapi_spec_cache.tag = "doc"
    /\ Loading = {}
    /\ reloaded.origin.resolved = Candidates[1]
    /\ RESOLVED_OPENAPI_URL = Candidates[2]
    /\ CONTEXT_PATH_RUNTIME # reloaded.origin.runtime

\* ensure_openapi_loaded has recorded a failed fetch
FailureRecorded == openapi_spec_cache.tag = "error" /\ operation_map = MapOf(EmptyMap)
\* what a call that arrives then is answered with at once, without a fetch
AnsweredFromFailure(h, call) ==
    /\ handlers'[h].pc = "idle"
    /\ Loading' = Loading
    /\ last_reply' = IF call.kind = "list_tools"
                     THEN [kind |-> "error_tool", tools |-> <<"error">>, value |-> ""]
                     ELSE Reply("unknown_tool")

\* C36: a failed load is cached.  Once a failed fetch is recorded, every
\* list_tools returns only the error tool and every operation call returns
\* "Unknown tool", neither issuing a spec fetch, and the recorded failure
\* stays until reload_openapi_spec is called; a reload that then succeeds
\* leaves a catalog in which the operations of its document are invocable.
C36_FailedLoadIsCached ==
    [][FailureRecorded =>
          /\ \A h \in Handlers, call \in LoadCalls :
                (Receive(h, call) /\ ~IsReload(call)) => AnsweredFromFailure(h, call)
          /\ (openapi_spec_cache' # openapi_spec_cache \/ operation_map' # operation_map)
                => \E h \in Handlers : Receive(h, ReloadCall)
          /\ \A h \in Handlers :
                (Receive(h, ReloadCall) /\ Loading = {}) =>
                    /\ openapi_spec_cache' = NoData /\ operation_map' = NoMap
                    /\ handlers'[h].pc = "loading"]_vars

\* the same for a failure recorded while no other load is in flight
C36_CachedWhileNoOtherLoad ==
    [][(FailureRecorded /\ Loading = {}) =>
          /\ \A h \in Handlers, call \in LoadCalls :
                (Receive(h, call) /\ ~IsReload(call)) => AnsweredFromFailure(h, call)
          /\ (openapi_spec_cache' # openapi_spec_cache \/ operation_map' # operation_map)
                => \E h \in Handlers : Receive(h, ReloadCall)
          /\ \A h \in Handlers :
                Receive(h, ReloadCall) =>
                    /\ openapi_spec_cache' = NoData /\ operation_map' = NoMap
                    /\ handlers'[h].pc = "loading"]_vars

(***************************************************************************)
(* Operations and built-in tools of the same name (SpecShadow).            *)
(***************************************************************************)
\* the catalog is loaded and holds an operation under the name of the call
InCatalog(call) ==
    /\ call.kind = "call_tool"
    /\ openapi_spec_cache.tag = "doc"
    /\ operation_map.tag = "map"
    /\ call.name \in DOMAIN operation_map.map
\* the step of task h synthesized and sent the request of the operation
\* cataloged under the name of the call
InvokesOperation(h, call) ==
    /\ handlers'[h].pc = "requesting"
    /\ handlers'[h].call = call
    /\ handlers'[h].request.method = operation_map.map[call.name].method

\* C37: every operation of the catalog is invocable under its operation id:
\* a call_tool with the name of a key of operation_map reaches request
\* synthesis for that operation, also when the id is the name of a built-in
\* tool.
C37_EveryOperationInvocable ==
    [][\A h \in Handlers, call \in ShadowCalls :
          (InCatalog(call) /\ Receive(h, call)) => InvokesOperation(h, call)]_vars

\* what holds instead: the operations whose id is no built-in name are
\* invocable, and a call under a built-in name runs the built-in tool
C37_InvocableUnlessBuiltinName ==
    [][\A h \in Handlers, call \in ShadowCalls :
          (InCatalog(call) /\ Receive(h, call)) =>
             IF \E i \in 1..Len(BuiltinTools) : BuiltinTools[i] = call.name
             THEN ~InvokesOperation(h, call)
             ELSE InvokesOperation(h, call)]_vars
\* show_header_context was called while the catalog held an operation of
\* that name, and the header context was shown
C37_ShadowedWitness ==
    /\ openapi_spec_cache.tag = "doc"
    /\ "show_header_context" \in DOMAIN operation_map.map
    /\ last_reply.kind = "shown"
    /\ \A h \in Handlers : handlers[h].pc = "idle"

(***************************************************************************)
(* The header check of call_tool (SpecSynth).                              *)
(***************************************************************************)
\* the header set holds an entry under one of the two spellings the check
\* of call_tool looks for
HasEntry(headers, lower, title) == lower \in DOMAIN headers \/ title \in DOMAIN headers
HasBoth(headers) ==
    /\ HasEntry(headers, "x-group", "X-Group")
    /\ HasEntry(headers, "x-hospital", "X-Hospital")
\* an operation call was synthesized and building its request did not raise
Checked == synth.call # NoCall /\ ~synth.built.raised
\* resolution can supply the header: request building has set it, or there is
\* an override or an environment default to add
Resolvable(lower, title, user, default) ==
    HasEntry(synth.built.headers, lower, title) \/ user # NoValue \/ default # NoValue

\* C38: call_tool sends the request of an operation only when the resolved
\* header set holds both an x-group and an x-hospital entry; otherwise it
\* replies "Missing required header(s)" and sends nothing, whether or not the
\* operation declares a header parameter.
C38_RequestOnlyWithBothHeaders ==
    Checked =>
        LET both == /\ Resolvable("x-group", "X-Group", synth.user_group,
                                  env.DEFAULT_X_GROUP)
                    /\ Resolvable("x-hospital", "X-Hospital", synth.user_hospital,
                                  env.DEFAULT_X_HOSPITAL)
        IN  IF both
            THEN /\ synth.result.request # NoRequest
                 /\ synth.result.request.sent
                 /\ HasBoth(synth.result.request.headers)
                 /\ \A n \in DOMAIN synth.built.headers :
                       /\ n \in DOMAIN synth.result.request.headers
                       /\ synth.result.request.headers[n] = synth.built.headers[n]
            ELSE /\ synth.result.request = NoRequest
                 /\ synth.result.reply.kind = "missing_headers"

\* an operation that declares no header parameter was refused for want of an
\* x-hospital value while an x-group override was set
C38_Witness ==
    /\ Checked
    /\ synth.call.name = "listBooks"
    /\ synth.user_group = "5" /\ synth.user_hospital = NoValue
    /\ env.DEFAULT_X_HOSPITAL = NoValue
    /\ synth.result.reply.kind = "missing_headers"
    /\ synth.result.request = NoRequest
\* the same operation was sent with the two overrides
C38_SentWitness ==
    /\ Checked
    /\ synth.call.name = "listBooks"
    /\ synth.result.request.sent
    /\ synth.result.request.headers = Args2("x-group", "5", "x-hospital", "9")

(***************************************************************************)
(* Header names in other letter cases (SpecCapitals).                      *)
(***************************************************************************)
\* the names of the headers of the set that are `kind` ignoring case
Named(headers, kind) == {n \in DOMAIN headers : LowerName(n) = kind}
\* the caller gave an explicit argument for a declared header parameter
\* that is `kind` ignoring case
Explicit(kind) ==
    \E n \in ParamNames(CapitalsCatalog[synth.call.name].details, {"header"}) :
        LowerName(n) = kind /\ provided_key(n, synth.call.arguments) # NoValue

\* C39: a request call_tool sends carries at most one header named x-group
\* and at most one named x-hospital, letter case aside; with an explicit
\* argument for a declared header parameter, whatever the letter case of its
\* declared name, no override or default is sent in addition and the call is
\* not refused as missing that header.
C39_AtMostOneHeaderPerKind ==
    Checked =>
        /\ synth.result.request # NoRequest =>
              /\ Cardinality(Named(synth.result.request.headers, "x-group")) <= 1
              /\ Cardinality(Named(synth.result.request.headers, "x-hospital")) <= 1
        /\ (/\ Explicit("x-group") \/ synth.user_group # NoValue
                 \/ env.DEFAULT_X_GROUP # NoValue
            /\ Explicit("x-hospital") \/ synth.user_hospital # NoValue
                 \/ env.DEFAULT_X_HOSPITAL # NoValue)
              => synth.result.request # NoRequest

\* what holds instead: at most one header per spelling, and the request
\* building's own headers are sent as built
C39_AtMostOnePerSpelling ==
    (Checked /\ synth.result.request # NoRequest) =>
        /\ \A n \in DOMAIN synth.built.headers :
              synth.result.request.headers[n] = synth.built.headers[n]
        /\ Cardinality(Named(synth.result.request.headers, "x-group")) <= 2
        /\ Cardinality(Named(synth.result.request.headers, "x-hospital")) <= 1
\* the request carries the explicit X-GROUP of the caller and, in addition,
\* the user override under x-group
C39_DuplicateWitness ==
    /\ Checked
    /\ synth.call = CallTool("audit", Args2("X-GROUP", "3", "x-hospital", "4"))
    /\ synth.result.request.sent
    /\ synth.result.request.headers
          = [n \in {"X-GROUP", "x-group", "x-hospital"} |->
                CASE n = "X-GROUP" -> "3" [] n = "x-group" -> "5" [] OTHER -> "4"]
\* the call with an explicit X-GROUP was refused as missing x-group
C39_RefusedWitness ==
    /\ Checked
    /\ synth.call = CallTool("audit", Args2("X-GROUP", "3", "x-hospital", "4"))
    /\ synth.user_group = NoValue /\ env.DEFAULT_X_GROUP = NoValue
    /\ synth.result.reply.kind = "missing_headers"

(***************************************************************************)
(* Background test runs in flight (SpecAuto).                              *)
(***************************************************************************)
\* the background test runs whose test script is running
RunningAutoRuns == {i \in DOMAIN auto.tasks : auto.tasks[i].pc = "running"}

\* C40: at most one auto-triggered background test run is in flight at any
\* time: a reload that succeeds while an earlier background run (of startup
\* or of a previous reload) is still running starts no second run next to it.
C40_AtMostOneAutoRun == Cardinality(RunningAutoRuns) <= 1

\* a reload succeeded while the startup run was running, and its own run was
\* started next to it
C40_TwoRunsWitness ==
    /\ Len(auto.tasks) = 2
    /\ auto.tasks[1].label = "startup" /\ auto.tasks[1].pc = "running"
    /\ auto.tasks[2].label = "reload" /\ auto.tasks[2].pc = "running"
    /\ openapi_spec_cache.tag = "doc"
====
